---- MODULE Spec2Model ----
(***************************************************************************)
(* A model of claude-code-go: the streaming pipeline                        *)
(* (ClaudeClient.StreamPrompt) and the retry executor                       *)
(* (ClaudeClient.RunPromptWithRetryCtx) of pkg/claude.                      *)
(*                                                                          *)
(* Specifications:                                                          *)
(*   SpecStream      one StreamPrompt invocation: the pipeline goroutine,   *)
(*                   the stderr drain goroutine, the child process, the     *)
(*                   context and the consumer of the two channels.          *)
(*   FairSpecStream  SpecStream with the fairness the Go scheduler gives    *)
(*                   runnable goroutines and the operating system gives     *)
(*                   the child process.                                     *)
(*   SpecRetry       one RunPromptWithRetryCtx call.                        *)
(***************************************************************************)
EXTENDS Integers, Sequences, FiniteSets, TLC

----------------------------------------------------------------------------
(* Bounds of the model *)

\* most lines the child process writes to its standard output
MaxLines == 2

\* largest RetryPolicy.MaxRetries the model draws
MaxRetriesBound == 3

\* largest attempt number calculateBackoff is called with on its own
MaxBackoffArg == 4

\* goroutines that call CircuitBreaker.Execute
MaxCallers == 2

\* largest failureThreshold a circuit breaker is created with
MaxThreshold == 2

\* largest reading of the clock
MaxClock == 3

\* largest capacity a bounded buffer is created with
MaxCapacity == 2

\* most bytes one Write call is given
MaxWriteLen == 2

\* most Write calls between two resets of a bounded buffer
MaxWrites == 3

\* goroutines that use one LimitedBuffer at the same time
MaxGoroutines == 2

\* most chunks the source of a copy delivers
MaxChunks == 3

\* most units in a diagnostic text given to ParseError
MaxTextLen == 3

\* largest RecoveryConfig.MaxRetries a resilient buffer is created with
MaxRecoveryRetries == 2

(* Program constants *)

\* errCh := make(chan error, 1)
ErrChCap == 1
\* buffer.DefaultConfig().MaxStderrSize, the documented capacity of the
\* diagnostic buffer, in the unit stderr is counted in here (1 unit = 1 MiB)
MaxStderrSize == 1
\* math.MaxInt64, the largest time.Duration, at the scale of the model: the
\* model's durations are 7-bit signed integers in units of 100ms
DurationMax == 63

\* most units the child process writes to its standard error: one more than
\* the diagnostic buffer is documented to keep
MaxStderrLen == MaxStderrSize + 1

----------------------------------------------------------------------------
(* State *)

VARIABLES
    \* StreamPrompt ---------------------------------------------------------
    lines,          \* the lines the child has written to stdout so far
    exitCode,       \* the exit status the child ended with
    procState,      \* "unstarted", "running", "exited", "killed"
    errWritten,     \* units the child has written to stderr so far
    stdoutPipe,     \* stdout lines written and not yet scanned
    stderrPipe,     \* stderr units written and not yet drained
    pipesClosed,    \* the parent's read ends were closed (by Wait or a failed Start)
    drain,          \* the stderr goroutine: "none", "running", "done"
    stderrBuf,      \* stderrBuf, the bytes.Buffer the drain goroutine fills
    pc,             \* position of the pipeline goroutine
    msg,            \* the decoded message the pipeline is publishing
    decoded,        \* every message the pipeline has decoded, in order
    errCh,          \* the buffered error channel
    errClosed,      \* times errCh was closed
    msgClosed,      \* times messageCh was closed
    cancelled,      \* ctx.Done() is closed
    cancelAt,       \* messages the consumer had received when ctx was cancelled
                    \* while the pipeline was still running, else -1
    consumerActive, \* the consumer is still receiving from messageCh
    received,       \* messages the consumer received, in order
    gotErrs,        \* errors the consumer received, in order
    waited,         \* cmd.Wait() has returned
    \* RunPromptWithRetryCtx ------------------------------------------------
    policy,         \* the RetryPolicy
    rpc,            \* position of the retry executor
    attempt,        \* the loop variable `attempt`
    lastErr,        \* lastErr
    outcome,        \* what RunPromptWithRetryCtx returned
    attempts,       \* the errors (or "ok") of the attempts made, in order
    waits,          \* the waits made, in order
    rcancelled,     \* the retry executor's ctx.Done() is closed
    selReady,       \* the cases of the current wait's select that were ready
                    \* when the executor entered it
    goarch,         \* the platform, which decides what an out-of-range
                    \* conversion from float64 to time.Duration yields
    \* RetryPolicy.calculateBackoff called on its own -----------------------
    cbResults,      \* the calls made so far, as pairs <<attempt, result>>
    \* buffer.CircuitBreaker -------------------------------------------------
    failureThreshold,     \* failureThreshold
    resetTimeout,         \* resetTimeout
    consecutiveFailures,  \* consecutiveFailures
    lastFailureTime,      \* lastFailureTime, ZeroTime until a failure is recorded
    state,                \* state: "Closed", "Open", "HalfOpen"
    now,                  \* the clock read by time.Now() and time.Since()
    callPc,               \* per caller of Execute: "idle", or "running" while
                          \* its operation runs
    callRes,              \* per caller, how its last Execute call ended:
                          \* "none", "rejected", "ok", "fail"
    \* buffer.LimitedBuffer --------------------------------------------------
    config,         \* the Config of the BufferManager that created the buffer
    maxSize,        \* maxSize
    truncSuf,       \* truncSuf
    buf,            \* buf, the bytes kept
    written,        \* written
    truncated,      \* truncated
    writes,         \* the data of the Write calls since the last Reset, in order
    lastWrite,      \* what the last Write call returned
    \* buffer.ResilientBuffer ------------------------------------------------
    recoveryConfig, \* config, the RecoveryConfig
    primaryBuffer,  \* primaryBuffer, a LimitedBuffer
    fallbackBuffer, \* fallbackBuffer, a LimitedBuffer
    retryCount,     \* retryCount
    usingFallback,  \* usingFallback
    lastError,      \* lastError: "nil", "error" or "panic"
    rbMu,           \* mu: "unlocked" or "locked"
    canFail,        \* the primary buffer's Write is one that can return an error
    rbOps,          \* Write calls since the last Reset
    faultRun,       \* faults of the primary write since its last success
    faultsTotal,    \* faults of the primary write since the last Reset
    atSwitch,       \* the bytes the primary held when the fallback took over
    afterSwitch,    \* the bytes written since the fallback took over
    rbLast          \* how the last Write call ended

streamVars == <<lines, exitCode, procState, errWritten, stdoutPipe,
                stderrPipe, pipesClosed, drain, stderrBuf, pc, msg, decoded,
                errCh, errClosed, msgClosed, cancelled, cancelAt,
                consumerActive, received, gotErrs, waited>>

retryVars == <<policy, rpc, attempt, lastErr, outcome, attempts, waits,
               rcancelled, selReady, goarch>>

backoffVars == <<cbResults>>

\* the state of the units that are used apart from StreamPrompt and the retry
\* executor
breakerVars == <<failureThreshold, resetTimeout, consecutiveFailures,
                 lastFailureTime, state, now, callPc, callRes>>

bufferVars == <<config, maxSize, truncSuf, buf, written, truncated, writes,
                lastWrite>>

resilientVars == <<recoveryConfig, primaryBuffer, fallbackBuffer, retryCount,
                   usingFallback, lastError, rbMu, canFail, rbOps, faultRun,
                   faultsTotal, atSwitch, afterSwitch, rbLast>>

\* ParseError called on its own: its arguments and what it returned
VARIABLES peStderr, peExitCode, peResult

classifyVars == <<peStderr, peExitCode, peResult>>

\* a LimitedBuffer used by several goroutines: the buffer, who holds its
\* mutex, and each goroutine's position, argument and local n
VARIABLES shLb, shMu, shPc, shData, shN, shCalls, shObs

sharedVars == <<shLb, shMu, shPc, shData, shN, shCalls, shObs>>

\* a LimitedBuffer whose Bytes() result is kept by the caller: the buffer, the
\* array behind its bytes.Buffer, and the slice the caller holds
VARIABLES snLb, snStore, snSnap, snOps

snapVars == <<snLb, snStore, snSnap, snOps>>

\* BufferManager.CopyWithTimeout: the caller, the copying goroutine, the
\* source, the destination, the done channel and the context
VARIABLES cwPc, cwResult, cpPc, cpSrc, cpDst, cwDone, cwCtxDone

copyVars == <<cwPc, cwResult, cpPc, cpSrc, cpDst, cwDone, cwCtxDone>>

unitVars == <<backoffVars, breakerVars, bufferVars, resilientVars, classifyVars,
              sharedVars, snapVars, copyVars>>

vars == <<streamVars, retryVars, unitVars>>

----------------------------------------------------------------------------
(* Helpers *)

Min(a, b) == IF a < b THEN a ELSE b

IsPrefix(s, t) == Len(s) <= Len(t) /\ SubSeq(t, 1, Len(s)) = s

SeqsUpTo(S, n) == UNION {[1..k -> S] : k \in 0..n}

\* the units 1, 2, .., n of a diagnostic stream of n units
Units(n) == [i \in 1..n |-> i]

----------------------------------------------------------------------------
(* Output lines and their decoding *)

\* A stdout line: blank (only white space), a JSON object that decodes into a
\* Message, text that is not JSON, or a line longer than the scanner's token
\* limit (bufio.MaxScanTokenSize).
JsonLine(p) == [kind |-> "json", body |-> p]
BlankLine   == [kind |-> "blank", body |-> 0]
GarbageLine == [kind |-> "garbage", body |-> 0]
LongLine    == [kind |-> "toolong", body |-> 0]

\* the message payloads the model tells apart
Payloads == {1, 2}

Lines == {JsonLine(p) : p \in Payloads} \cup {BlankLine, GarbageLine, LongLine}

\* bufio.Scanner with the default buffer: a line longer than the token limit
\* ends the scan with bufio.ErrTooLong
ScanTooLong(line) == line.kind = "toolong"

\* mutant: a line that does not decode is skipped like a blank one
IsBlank_OrInvalid(line) == line.kind \in {"blank", "garbage"}

\* strings.TrimSpace(line) == ""
IsBlank(line) == line.kind = "blank"

\* json.Unmarshal([]byte(line), &msg)
Unmarshal(line) ==
    IF line.kind = "json"
    THEN [ok |-> TRUE, msg |-> [Type |-> line.body]]
    ELSE [ok |-> FALSE, msg |-> [Type |-> 0]]

\* a line the pipeline can frame and decode
WellFormed(line) == ~ScanTooLong(line) /\ (IsBlank(line) \/ Unmarshal(line).ok)

RECURSIVE MessagesOf(_)
\* the messages of the non-blank lines of a well-formed stream, in order
MessagesOf(ls) ==
    IF ls = <<>> THEN <<>>
    ELSE IF IsBlank(Head(ls)) THEN MessagesOf(Tail(ls))
    ELSE <<Unmarshal(Head(ls)).msg>> \o MessagesOf(Tail(ls))

----------------------------------------------------------------------------
(* Errors sent on errCh *)

PipeError     == [kind |-> "pipe", stderr |-> <<>>, code |-> 0]
StartError    == [kind |-> "start", stderr |-> <<>>, code |-> 0]
ParseJSONError == [kind |-> "parse", stderr |-> <<>>, code |-> 0]
ScannerError  == [kind |-> "scanner", stderr |-> <<>>, code |-> 0]
\* ctx.Err()
CtxError      == [kind |-> "ctx", stderr |-> <<>>, code |-> 0]
\* ParseError(stderrBuf.String(), exitCode): the classification keeps the
\* diagnostic text in Details["stderr"] and the exit status in Code
ClassifiedExit(text, code) == [kind |-> "claude", stderr |-> text, code |-> code]

----------------------------------------------------------------------------
(* ClaudeError and its retryability *)

\* a *ClaudeError: its Type, the keywords of isMCPConnectionError that occur
\* in its lower-cased Message, and Details["retry_after"] (0 when absent)
ClaudeErr(type, keywords, retryAfter) ==
    [Type |-> type, Keywords |-> keywords, RetryAfter |-> retryAfter]

\* no error
NoErr == ClaudeErr("nil", {}, 0)

\* ErrorType.IsRetryable
TypeIsRetryable(type) == type \in {"rate_limit", "network", "timeout", "mcp"}

ConnectionKeywords == {"connection", "connect", "timeout", "refused",
                       "unreachable", "network", "socket", "pipe", "broken pipe"}

ConfigKeywords == {"configuration", "config", "invalid", "not found",
                   "permission", "authentication", "unauthorized", "forbidden"}

\* ClaudeError.isMCPConnectionError
isMCPConnectionError(e) ==
    IF e.Keywords \cap ConnectionKeywords # {} THEN TRUE
    ELSE IF e.Keywords \cap ConfigKeywords # {} THEN FALSE
    ELSE TRUE

\* mutant: every error is retried
IsRetryable_Always(e) == TRUE

\* ClaudeError.IsRetryable
IsRetryable(e) ==
    IF ~TypeIsRetryable(e.Type) THEN FALSE
    ELSE IF e.Type = "mcp" THEN isMCPConnectionError(e)
    ELSE TRUE

\* ClaudeError.RetryDelay, in seconds
RetryDelay(e) ==
    IF e.Type = "rate_limit" THEN (IF e.RetryAfter # 0 THEN e.RetryAfter ELSE 60)
    ELSE IF e.Type \in {"network", "timeout"} THEN 5
    ELSE IF e.Type = "mcp" THEN (IF isMCPConnectionError(e) THEN 3 ELSE 0)
    ELSE 0

\* The errors RunPromptCtx returns: they all come from ParseError, whose
\* Message is a fixed text per category, or are validation errors.
AttemptErrors ==
    { ClaudeErr("authentication", {"authentication"}, 0),
      ClaudeErr("rate_limit", {}, 0),
      ClaudeErr("rate_limit", {}, 2),
      ClaudeErr("mcp", {}, 0),
      ClaudeErr("network", {"network"}, 0),
      ClaudeErr("command", {}, 0) }

----------------------------------------------------------------------------
(* RetryPolicy *)

\* DefaultRetryPolicy(), durations in units of 100ms
DefaultRetryPolicy ==
    [MaxRetries |-> 3, BaseDelay |-> 1, MaxDelay |-> 50, BackoffFactor |-> 2]

\* the policies the model draws: nil stands for DefaultRetryPolicy()
Policies ==
    {DefaultRetryPolicy} \cup
    [MaxRetries : 0..MaxRetriesBound, BaseDelay : {1, 4}, MaxDelay : {3},
     BackoffFactor : {1, 2, 4}]

RECURSIVE Pow(_, _)
\* math.Pow for a whole base and a whole exponent >= 0
Pow(b, e) == IF e <= 0 THEN 1 ELSE b * Pow(b, e - 1)

\* float64(rp.BaseDelay) * math.Pow(rp.BackoffFactor, float64(attempt-1)),
\* rounded toward zero
BackoffProduct(rp, n) ==
    IF n >= 1 THEN rp.BaseDelay * Pow(rp.BackoffFactor, n - 1)
    ELSE rp.BaseDelay \div Pow(rp.BackoffFactor, 1 - n)

\* time.Duration(delay): a float64 beyond the range of int64 converts to an
\* implementation-dependent value, the smallest int64 on amd64 and the largest
\* on arm64
ToDuration(delay, arch) ==
    IF delay <= DurationMax THEN delay
    ELSE IF arch = "amd64" THEN -DurationMax - 1
    ELSE DurationMax

\* mutant: the delay is not cut to MaxDelay
calculateBackoff_NoCap(rp, n, arch) ==
    IF n = 0 THEN 0 ELSE ToDuration(BackoffProduct(rp, n), arch)

\* RetryPolicy.calculateBackoff
calculateBackoff(rp, n, arch) ==
    IF n = 0 THEN 0
    ELSE LET result == ToDuration(BackoffProduct(rp, n), arch)
         IN  IF result > rp.MaxDelay THEN rp.MaxDelay ELSE result

----------------------------------------------------------------------------
(* RunPromptWithRetryCtx *)

OkResult == [kind |-> "ok", err |-> NoErr, retries |-> 0]
CtxErrResult == [kind |-> "ctx", err |-> NoErr, retries |-> 0]
\* return nil, err
ErrResult(e) == [kind |-> "err", err |-> e, retries |-> 0]
\* fmt.Errorf("max retries (%d) exceeded, last error: %w", MaxRetries, lastErr)
ExhaustedResult(n, e) == [kind |-> "exhausted", err |-> e, retries |-> n]
NoResult == [kind |-> "none", err |-> NoErr, retries |-> 0]

\* the loop condition `attempt <= retryPolicy.MaxRetries`
LoopContinues(a, rp) == a <= rp.MaxRetries

\* the top of the loop: the loop condition and, for attempt > 0, the start of
\* the backoff wait; after the loop, the retries-exhausted error
\* The cases of `select { case <-time.After(d): ... case <-ctx.Done(): ... }`
\* that are ready when the select is entered: the timer's when d <= 0, the
\* context's when it is already done.  With none ready the executor blocks and
\* the first of the two events to happen decides the case; with both ready the
\* runtime picks one of them.
ReadyAtEntry(d) ==
    (IF d <= 0 THEN {"timer"} ELSE {}) \cup (IF rcancelled THEN {"ctx"} ELSE {})

\* the timer case of the current select can be taken
TimerCase == "timer" \in selReady \/ (selReady = {} /\ ~rcancelled)

\* the ctx.Done() case of the current select can be taken
CtxCase == "ctx" \in selReady \/ (selReady = {} /\ rcancelled)

LoopTop ==
    /\ rpc = "loop"
    /\ IF ~LoopContinues(attempt, policy)
       THEN /\ outcome' = ExhaustedResult(policy.MaxRetries, lastErr)
            /\ rpc' = "done"
            /\ UNCHANGED selReady
       ELSE /\ rpc' = IF attempt > 0 THEN "backoff" ELSE "run"
            /\ selReady' = IF attempt > 0
                           THEN ReadyAtEntry(calculateBackoff(policy, attempt, goarch))
                           ELSE {}
            /\ UNCHANGED outcome
    /\ UNCHANGED <<policy, attempt, lastErr, attempts, waits, rcancelled, goarch>>
    /\ UNCHANGED <<streamVars, unitVars>>

\* `case <-time.After(delay)`: the backoff wait has passed
BackoffElapsed ==
    /\ rpc = "backoff"
    /\ TimerCase
    /\ waits' = Append(waits, [kind |-> "backoff", before |-> attempt + 1,
                               dur |-> calculateBackoff(policy, attempt, goarch)])
    /\ rpc' = "run"
    /\ UNCHANGED <<policy, attempt, lastErr, outcome, attempts, rcancelled,
                   selReady, goarch>>
    /\ UNCHANGED <<streamVars, unitVars>>

\* mutant: the cancellation ends the wait and the next attempt is started
WaitCancelled_Proceeds ==
    /\ rpc \in {"backoff", "ratewait"}
    /\ CtxCase
    /\ rpc' = "run"
    /\ UNCHANGED <<policy, attempt, lastErr, outcome, attempts, waits,
                   rcancelled, selReady, goarch>>
    /\ UNCHANGED <<streamVars, unitVars>>

\* `case <-ctx.Done()` of either wait: return nil, ctx.Err()
WaitCancelled ==
    /\ rpc \in {"backoff", "ratewait"}
    /\ CtxCase
    /\ outcome' = CtxErrResult
    /\ rpc' = "done"
    /\ UNCHANGED <<policy, attempt, lastErr, attempts, waits, rcancelled,
                   selReady, goarch>>
    /\ UNCHANGED <<streamVars, unitVars>>

\* c.RunPromptCtx and the handling of its result
RunAttempt ==
    /\ rpc = "run"
    /\ \E r \in {NoErr} \cup AttemptErrors :
          /\ attempts' = Append(attempts, r)
          /\ IF r = NoErr
             THEN /\ outcome' = OkResult
                  /\ rpc' = "done"
                  /\ UNCHANGED <<lastErr, attempt, selReady>>
             ELSE /\ lastErr' = r
                  /\ IF ~IsRetryable(r)
                     THEN /\ outcome' = ErrResult(r)
                          /\ rpc' = "done"
                          /\ UNCHANGED <<attempt, selReady>>
                     ELSE IF r.Type = "rate_limit" /\ RetryDelay(r) > 0
                     THEN /\ rpc' = "ratewait"
                          /\ selReady' = ReadyAtEntry(RetryDelay(r))
                          /\ UNCHANGED <<outcome, attempt>>
                     ELSE /\ attempt' = attempt + 1
                          /\ rpc' = "loop"
                          /\ UNCHANGED <<outcome, selReady>>
    /\ UNCHANGED <<policy, waits, rcancelled, goarch>>
    /\ UNCHANGED <<streamVars, unitVars>>

\* `case <-time.After(retryAfter seconds)` and `continue`
RateWaitElapsed ==
    /\ rpc = "ratewait"
    /\ TimerCase
    /\ waits' = Append(waits, [kind |-> "rate", before |-> attempt + 2,
                               dur |-> RetryDelay(lastErr)])
    /\ attempt' = attempt + 1
    /\ rpc' = "loop"
    /\ UNCHANGED <<policy, lastErr, outcome, attempts, rcancelled, selReady,
                   goarch>>
    /\ UNCHANGED <<streamVars, unitVars>>

\* the caller cancels the context of the retry executor
RetryCancel ==
    /\ rpc # "done"
    /\ ~rcancelled
    /\ rcancelled' = TRUE
    /\ UNCHANGED <<policy, rpc, attempt, lastErr, outcome, attempts, waits,
                   selReady, goarch>>
    /\ UNCHANGED <<streamVars, unitVars>>

\* the retry executor is not part of a StreamPrompt invocation
RetryIdle ==
    /\ policy = DefaultRetryPolicy
    /\ rpc = "idle"
    /\ attempt = 0
    /\ lastErr = NoErr
    /\ outcome = NoResult
    /\ attempts = <<>>
    /\ waits = <<>>
    /\ rcancelled = FALSE
    /\ selReady = {}
    /\ goarch = "amd64"

\* RunPromptWithRetryCtx is entered with a policy
RetryStart ==
    /\ policy \in Policies
    /\ rpc = "loop"
    /\ attempt = 0
    /\ lastErr = NoErr
    /\ outcome = NoResult
    /\ attempts = <<>>
    /\ waits = <<>>
    /\ rcancelled = FALSE
    /\ selReady = {}
    /\ goarch \in {"amd64", "arm64"}

\* calculateBackoff is not being called on its own
BackoffIdle == cbResults = {}

\* time.Time{}, the value of lastFailureTime before any failure
ZeroTime == 0 - 1

\* the callers of CircuitBreaker.Execute
Callers == 1..MaxCallers

\* no circuit breaker is in use
BreakerIdle ==
    /\ failureThreshold = 1
    /\ resetTimeout = 1
    /\ consecutiveFailures = 0
    /\ lastFailureTime = ZeroTime
    /\ state = "Closed"
    /\ now = 0
    /\ callPc = [c \in Callers |-> "idle"]
    /\ callRes = [c \in Callers |-> "none"]

\* what a Write that was never made returned
NoWrite == [n |-> 0, err |-> "none"]

\* a Config: the size limit of the stdout buffer, the truncation suffix and
\* the EnableTruncation option
Config(size, suffix, enable) ==
    [MaxStdoutSize |-> size, TruncationSuffix |-> suffix,
     EnableTruncation |-> enable]

\* no bounded buffer is in use
BufferIdle ==
    /\ config = Config(0, <<>>, TRUE)
    /\ maxSize = 0
    /\ truncSuf = <<>>
    /\ buf = <<>>
    /\ written = 0
    /\ truncated = FALSE
    /\ writes = <<>>
    /\ lastWrite = NoWrite

\* a LimitedBuffer as a value: the fields of the struct
LimitedBuffer(size, suffix) ==
    [buf |-> <<>>, maxSize |-> size, truncSuf |-> suffix, written |-> 0,
     truncated |-> FALSE]

\* a RecoveryConfig
RecoveryConfig(retries, size, degrade, crash) ==
    [MaxRetries |-> retries, FallbackBufferSize |-> size,
     EnableGracefulDegradation |-> degrade, CrashOnPanic |-> crash]

\* the primary has not been replaced by the fallback
NoSwitch == <<"none">>

\* no Write call has been made
NoCall == [outcome |-> "none", n |-> 0, err |-> "nil", propagated |-> FALSE]

\* no resilient buffer is in use
\* no call of ParseError made
NotParsed == [Type |-> "none", Message |-> <<>>, Code |-> 0, Stderr |-> <<>>]

ClassifierIdle == peStderr = <<>> /\ peExitCode = 0 /\ peResult = NotParsed

\* the goroutines that use one LimitedBuffer
Goroutines == 1..MaxGoroutines

\* no LimitedBuffer is shared by goroutines
SharedIdle ==
    /\ shLb = LimitedBuffer(0, <<>>)
    /\ shMu = 0
    /\ shPc = [g \in Goroutines |-> "idle"]
    /\ shData = [g \in Goroutines |-> <<>>]
    /\ shN = [g \in Goroutines |-> 0]
    /\ shCalls = 0
    /\ shObs = [g \in Goroutines |-> <<0, 0>>]

\* no slice returned by Bytes()
NoSnapshot == [taken |-> FALSE, aliased |-> FALSE, len |-> 0, bytes |-> <<>>,
               was |-> <<>>]

\* no LimitedBuffer is read with Bytes()
SnapIdle ==
    /\ snLb = LimitedBuffer(0, <<>>)
    /\ snStore = <<>>
    /\ snSnap = NoSnapshot
    /\ snOps = 0

\* CopyWithTimeout is not called
CopyIdle ==
    /\ cwPc = "idle"
    /\ cwResult = "none"
    /\ cpPc = "idle"
    /\ cpSrc = 0
    /\ cpDst = 0
    /\ cwDone = <<>>
    /\ cwCtxDone = FALSE

\* the units for the uses of a LimitedBuffer and for the copy are not in use
UsesIdle == SharedIdle /\ SnapIdle /\ CopyIdle

ResilientIdle ==
    /\ recoveryConfig = RecoveryConfig(1, 1, TRUE, FALSE)
    /\ primaryBuffer = LimitedBuffer(0, <<>>)
    /\ fallbackBuffer = LimitedBuffer(0, <<>>)
    /\ retryCount = 0
    /\ usingFallback = FALSE
    /\ lastError = "nil"
    /\ rbMu = "unlocked"
    /\ canFail = FALSE
    /\ rbOps = 0
    /\ faultRun = 0
    /\ faultsTotal = 0
    /\ atSwitch = NoSwitch
    /\ afterSwitch = <<>>
    /\ rbLast = NoCall

\* a RetryPolicy whose calculateBackoff is called on its own, on either platform
BackoffStart ==
    /\ policy \in Policies
    /\ rpc = "idle"
    /\ attempt = 0
    /\ lastErr = NoErr
    /\ outcome = NoResult
    /\ attempts = <<>>
    /\ waits = <<>>
    /\ rcancelled = FALSE
    /\ selReady = {}
    /\ goarch \in {"amd64", "arm64"}
    /\ cbResults = {}
    /\ BreakerIdle
    /\ BufferIdle
    /\ ResilientIdle /\ ClassifierIdle /\ UsesIdle

\* the attempt numbers calculateBackoff is called with
BackoffArgs == (0 - 1)..MaxBackoffArg

\* a call rp.calculateBackoff(n)
CallBackoff ==
    /\ \E n \in BackoffArgs :
          cbResults' = cbResults \cup {<<n, calculateBackoff(policy, n, goarch)>>}
    /\ UNCHANGED <<streamVars, retryVars, breakerVars, bufferVars, resilientVars, classifyVars,
                   sharedVars, snapVars, copyVars>>

NextBackoff == CallBackoff

NextRetry ==
    \/ LoopTop
    \/ BackoffElapsed
    \/ WaitCancelled
    \/ RunAttempt
    \/ RateWaitElapsed
    \/ RetryCancel

----------------------------------------------------------------------------
(* buffer.CircuitBreaker *)

\* the thresholds NewCircuitBreaker is called with
Thresholds == 0..MaxThreshold

\* the reset timeouts NewCircuitBreaker is called with, in ticks of the clock
ResetTimeouts == {1, 2}

\* NewCircuitBreaker(failureThreshold, resetTimeout)
NewCircuitBreaker ==
    /\ failureThreshold \in Thresholds
    /\ resetTimeout \in ResetTimeouts
    /\ consecutiveFailures = 0
    /\ lastFailureTime = ZeroTime
    /\ state = "Closed"
    /\ now = 0
    /\ callPc = [c \in Callers |-> "idle"]
    /\ callRes = [c \in Callers |-> "none"]

\* time.Since(cb.lastFailureTime), which is the largest Duration for the zero
\* Time
Since ==
    IF lastFailureTime = ZeroTime THEN DurationMax ELSE now - lastFailureTime

\* mutant: the reset timeout counts as passed at once
TimeoutPassed_Always == TRUE

\* mutant: the reset timeout never counts as passed
TimeoutPassed_Never == FALSE

\* `time.Since(cb.lastFailureTime) > cb.resetTimeout`
TimeoutPassed == Since > resetTimeout

\* the result of canExecute in the current state
canExecute ==
    CASE state = "Closed" -> TRUE
      [] state = "Open" -> TimeoutPassed
      [] state = "HalfOpen" -> TRUE
      [] OTHER -> FALSE

\* The first half of Execute by caller c: canExecute, under the mutex, and
\* for a call that is refused the return of the circuit-open error.
ExecuteEnter(c) ==
    /\ callPc[c] = "idle"
    /\ IF canExecute
       THEN /\ state' = IF state = "Open" THEN "HalfOpen" ELSE state
            /\ callPc' = [callPc EXCEPT ![c] = "running"]
            /\ UNCHANGED callRes
       ELSE /\ callRes' = [callRes EXCEPT ![c] = "rejected"]
            /\ UNCHANGED <<state, callPc>>
    /\ UNCHANGED <<failureThreshold, resetTimeout, consecutiveFailures,
                   lastFailureTime, now>>
    /\ UNCHANGED <<streamVars, retryVars, backoffVars, bufferVars, resilientVars, classifyVars,
                   sharedVars, snapVars, copyVars>>

\* mutant: the failures have to exceed the threshold
ThresholdReached_Above(n) == n > failureThreshold

\* `cb.consecutiveFailures >= cb.failureThreshold`
ThresholdReached(n) == n >= failureThreshold

\* mutant: a success leaves the state as it is
StateAfter_SuccessKeeps(failed) ==
    IF failed
    THEN (IF ThresholdReached(consecutiveFailures + 1) THEN "Open" ELSE state)
    ELSE state

\* the state recordResult leaves
StateAfter(failed) ==
    IF failed
    THEN (IF ThresholdReached(consecutiveFailures + 1) THEN "Open" ELSE state)
    ELSE "Closed"

\* The second half of Execute by caller c: the operation returns, with an
\* error or without, and recordResult records it under the mutex.
ExecuteFinish(c) ==
    /\ callPc[c] = "running"
    /\ \E failed \in BOOLEAN :
          /\ consecutiveFailures' = IF failed THEN consecutiveFailures + 1 ELSE 0
          /\ lastFailureTime' = IF failed THEN now ELSE lastFailureTime
          /\ state' = StateAfter(failed)
          /\ callRes' = [callRes EXCEPT ![c] = IF failed THEN "fail" ELSE "ok"]
    /\ callPc' = [callPc EXCEPT ![c] = "idle"]
    /\ UNCHANGED <<failureThreshold, resetTimeout, now>>
    /\ UNCHANGED <<streamVars, retryVars, backoffVars, bufferVars, resilientVars, classifyVars,
                   sharedVars, snapVars, copyVars>>

\* time passes
Tick ==
    /\ now < MaxClock
    /\ now' = now + 1
    /\ UNCHANGED <<failureThreshold, resetTimeout, consecutiveFailures,
                   lastFailureTime, state, callPc, callRes>>
    /\ UNCHANGED <<streamVars, retryVars, backoffVars, bufferVars, resilientVars, classifyVars,
                   sharedVars, snapVars, copyVars>>

NextBreaker ==
    \/ \E c \in Callers : ExecuteEnter(c)
    \/ \E c \in Callers : ExecuteFinish(c)
    \/ Tick

----------------------------------------------------------------------------
(* buffer.LimitedBuffer *)

\* the values of a byte
ByteValues == {"a", "b"}

\* the data a Write call is given
WriteData == SeqsUpTo(ByteValues, MaxWriteLen)

\* the truncation suffixes a buffer is created with: none, or a marker
Suffixes == {<<>>, <<"~">>}

\* NewLimitedBuffer(maxSize, truncationSuffix)
NewLimitedBuffer ==
    /\ maxSize \in 0..MaxCapacity
    /\ truncSuf \in Suffixes
    /\ buf = <<>>
    /\ written = 0
    /\ truncated = FALSE
    /\ writes = <<>>
    /\ lastWrite = NoWrite

\* the configurations a BufferManager is created with
Configs ==
    {Config(size, suffix, enable) :
        size \in 0..MaxCapacity, suffix \in Suffixes, enable \in BOOLEAN}

\* NewBufferManager(config).NewStdoutBuffer()
NewStdoutBuffer ==
    /\ config \in Configs
    /\ maxSize = config.MaxStdoutSize
    /\ truncSuf = config.TruncationSuffix
    /\ NewLimitedBuffer

\* mutant: a Write keeps all of p
Accepted_All(p) == p

\* the part of p a Write appends to buf: nothing when the buffer is full, else
\* p cut to the remaining space
Accepted(p) ==
    IF written >= maxSize THEN <<>>
    ELSE LET remainingSpace == maxSize - written
         IN  IF Len(p) > remainingSpace THEN SubSeq(p, 1, remainingSpace) ELSE p

\* mutant: truncated tells whether the last write was cut
TruncatedAfter_LastWrite(p) == Len(p) > maxSize - written

\* the value of truncated after Write(p)
TruncatedAfter(p) ==
    IF written >= maxSize THEN TRUE
    ELSE IF Len(p) > maxSize - written THEN TRUE
    ELSE truncated

\* mutant: Write returns the number of bytes it kept
WriteCount_Accepted(p) == Len(Accepted(p))

\* the count Write(p) returns: originalLen, the length of p as it was passed
WriteCount(p) == Len(p)

\* LimitedBuffer.Write(p)
Write(p) ==
    /\ Len(writes) < MaxWrites
    /\ buf' = buf \o Accepted(p)
    /\ written' = written + Len(Accepted(p))
    /\ truncated' = TruncatedAfter(p)
    /\ lastWrite' = [n |-> WriteCount(p), err |-> "nil"]
    /\ writes' = Append(writes, p)
    /\ UNCHANGED <<config, maxSize, truncSuf>>
    /\ UNCHANGED <<streamVars, retryVars, backoffVars, breakerVars, resilientVars, classifyVars,
                   sharedVars, snapVars, copyVars>>

\* LimitedBuffer.Reset()
Reset ==
    /\ buf' = <<>>
    /\ written' = 0
    /\ truncated' = FALSE
    /\ writes' = <<>>
    /\ UNCHANGED <<config, maxSize, truncSuf, lastWrite>>
    /\ UNCHANGED <<streamVars, retryVars, backoffVars, breakerVars, resilientVars, classifyVars,
                   sharedVars, snapVars, copyVars>>

\* mutant: the snapshot never carries the suffix
Bytes_NoSuffix == buf

\* LimitedBuffer.Bytes(), the snapshot
Bytes == IF truncated /\ truncSuf # <<>> THEN buf \o truncSuf ELSE buf

\* LimitedBuffer.Size()
Size == written

\* LimitedBuffer.Truncated()
Truncated == truncated

NextBuffer ==
    \/ \E p \in WriteData : Write(p)
    \/ Reset

----------------------------------------------------------------------------
(* buffer.ResilientBuffer *)

\* LimitedBuffer.Write on a LimitedBuffer value: the part of p that is kept
LbAccepted(lb, p) ==
    IF lb.written >= lb.maxSize THEN <<>>
    ELSE IF Len(p) > lb.maxSize - lb.written
         THEN SubSeq(p, 1, lb.maxSize - lb.written)
         ELSE p

\* LimitedBuffer.Write on a LimitedBuffer value: the buffer it leaves
LbWrite(lb, p) ==
    [lb EXCEPT !.buf = @ \o LbAccepted(lb, p),
               !.written = @ + Len(LbAccepted(lb, p)),
               !.truncated = IF lb.written >= lb.maxSize THEN TRUE
                             ELSE IF Len(p) > lb.maxSize - lb.written THEN TRUE
                             ELSE @]

\* A LimitedBuffer.Write can panic in lb.buf.Write, where bytes.Buffer grows
\* (ErrTooLarge): that call is reached when the buffer is not full.
CanPanic(lb, p) == lb.written < lb.maxSize /\ Len(p) > 0

\* the buffer a Write that panicked in lb.buf.Write leaves: truncated was
\* already set if p had to be cut, and nothing was appended
LbPanicked(lb, p) ==
    [lb EXCEPT !.truncated = IF Len(p) > lb.maxSize - lb.written THEN TRUE ELSE @]

\* LimitedBuffer.Bytes on a LimitedBuffer value
LbBytes(lb) ==
    IF lb.truncated /\ lb.truncSuf # <<>> THEN lb.buf \o lb.truncSuf ELSE lb.buf

\* LimitedBuffer.Reset on a LimitedBuffer value
LbReset(lb) == [lb EXCEPT !.buf = <<>>, !.written = 0, !.truncated = FALSE]

\* the text " [FALLBACK]" that is appended to the suffix of the fallback
FallbackMark == <<"F">>

\* the recovery configurations a resilient buffer is created with
RecoveryConfigs ==
    {RecoveryConfig(r, size, degrade, crash) :
        r \in 1..MaxRecoveryRetries, size \in 1..MaxCapacity,
        degrade \in BOOLEAN, crash \in BOOLEAN}

\* NewResilientBuffer(maxSize, truncationSuffix, recoveryConfig)
NewResilientBuffer ==
    /\ recoveryConfig \in RecoveryConfigs
    /\ \E size \in 1..MaxCapacity, suffix \in Suffixes :
          /\ primaryBuffer = LimitedBuffer(size, suffix)
          /\ fallbackBuffer = LimitedBuffer(recoveryConfig.FallbackBufferSize,
                                            suffix \o FallbackMark)
    /\ retryCount = 0
    /\ usingFallback = FALSE
    /\ lastError = "nil"
    /\ rbMu = "unlocked"
    /\ rbOps = 0
    /\ faultRun = 0
    /\ faultsTotal = 0
    /\ atSwitch = NoSwitch
    /\ afterSwitch = <<>>
    /\ rbLast = NoCall

\* the data a resilient buffer is given: a, ab, aba, ...
RbWriteData ==
    {p \in WriteData : \A i \in 1..Len(p) : p[i] = IF i % 2 = 1 THEN "a" ELSE "b"}

\* the ways a write to the active LimitedBuffer ends
Outcomes == {"ok", "error", "panic"}

\* The outcomes of the primary write that reach shouldUseFallback: an error
\* that Write returned.  A panic leaves Write through the deferred recover.
Counted(o) == o = "error"

\* shouldUseFallback: whether it counts, and what it returns
ShouldCount == recoveryConfig.EnableGracefulDegradation
shouldUseFallback == ShouldCount /\ retryCount + 1 >= recoveryConfig.MaxRetries

\* switchToFallback: the fallback after the primary's Bytes() were copied in
Migrated(fb, primary) ==
    IF Len(LbBytes(primary)) > 0 THEN LbWrite(fb, LbBytes(primary)) ELSE fb

\* mutant: a panic is passed on to the caller
PanicResult_Propagates(crash) ==
    [outcome |-> "panic", n |-> 0, err |-> "nil", propagated |-> TRUE]

\* what Write's caller gets when the write panicked: the panic itself with
\* CrashOnPanic, else the deferred recover's n = 0 and the error it made
PanicResult(crash) ==
    IF crash
    THEN [outcome |-> "panic", n |-> 0, err |-> "nil", propagated |-> TRUE]
    ELSE [outcome |-> "panic", n |-> 0, err |-> "panic", propagated |-> FALSE]

\* ResilientBuffer.Write(p), the active buffer's write ending in outcome o
RbWrite(p, o) ==
    /\ rbMu = "unlocked"
    /\ rbOps < MaxWrites
    /\ rbOps' = rbOps + 1
    /\ rbMu' = "unlocked"
    /\ IF usingFallback
       THEN \* `if rb.usingFallback { n, err = rb.fallbackBuffer.Write(p) ... }`
            /\ o \in {"ok", "panic"}
            /\ o = "panic" => CanPanic(fallbackBuffer, p)
            /\ fallbackBuffer' = IF o = "ok" THEN LbWrite(fallbackBuffer, p)
                                 ELSE LbPanicked(fallbackBuffer, p)
            /\ afterSwitch' = IF o = "ok" THEN afterSwitch \o p ELSE afterSwitch
            /\ rbLast' = IF o = "ok"
                         THEN [outcome |-> "ok", n |-> Len(p), err |-> "nil",
                               propagated |-> FALSE]
                         ELSE PanicResult(recoveryConfig.CrashOnPanic)
            /\ lastError' = IF o = "panic" /\ ~rbLast'.propagated
                            THEN "panic" ELSE lastError
            /\ UNCHANGED <<primaryBuffer, retryCount, usingFallback, faultRun,
                           faultsTotal, atSwitch>>
       ELSE \* `if !rb.usingFallback { n, err = rb.primaryBuffer.Write(p) ... }`
            /\ o = "error" => canFail
            /\ o = "panic" => CanPanic(primaryBuffer, p)
            /\ primaryBuffer' = CASE o = "ok" -> LbWrite(primaryBuffer, p)
                                  [] o = "panic" -> LbPanicked(primaryBuffer, p)
                                  [] OTHER -> primaryBuffer
            /\ faultRun' = IF o = "ok" THEN 0 ELSE faultRun + 1
            /\ faultsTotal' = IF o = "ok" THEN faultsTotal ELSE faultsTotal + 1
            /\ retryCount' = IF Counted(o) /\ ShouldCount
                             THEN retryCount + 1 ELSE retryCount
            /\ usingFallback' = (Counted(o) /\ shouldUseFallback)
            /\ IF usingFallback'
               THEN /\ fallbackBuffer' =
                          LbWrite(Migrated(fallbackBuffer, primaryBuffer), p)
                    /\ atSwitch' = primaryBuffer.buf
                    /\ afterSwitch' = p
               ELSE UNCHANGED <<fallbackBuffer, atSwitch, afterSwitch>>
            /\ rbLast' = CASE o = "ok" ->
                                [outcome |-> "ok", n |-> Len(p), err |-> "nil",
                                 propagated |-> FALSE]
                           [] o = "panic" -> PanicResult(recoveryConfig.CrashOnPanic)
                           [] OTHER ->
                                IF usingFallback'
                                THEN [outcome |-> "error", n |-> Len(p),
                                      err |-> "nil", propagated |-> FALSE]
                                ELSE [outcome |-> "error", n |-> 0,
                                      err |-> "error", propagated |-> FALSE]
            /\ lastError' = CASE o = "error" -> "error"
                              [] o = "panic" /\ ~rbLast'.propagated -> "panic"
                              [] OTHER -> lastError
    /\ UNCHANGED <<recoveryConfig, canFail>>
    /\ UNCHANGED <<streamVars, retryVars, backoffVars, breakerVars, bufferVars, classifyVars,
                   sharedVars, snapVars, copyVars>>

\* mutant: Reset leaves the fallback in use
RbReset_KeepsFallback ==
    /\ rbMu = "unlocked"
    /\ rbOps # 0
    /\ primaryBuffer' = LbReset(primaryBuffer)
    /\ fallbackBuffer' = LbReset(fallbackBuffer)
    /\ retryCount' = 0
    /\ lastError' = "nil"
    /\ rbOps' = 0
    /\ faultRun' = 0
    /\ faultsTotal' = 0
    /\ rbLast' = NoCall
    /\ UNCHANGED <<usingFallback, atSwitch, afterSwitch, rbMu, recoveryConfig,
                   canFail>>
    /\ UNCHANGED <<streamVars, retryVars, backoffVars, breakerVars, bufferVars, classifyVars,
                   sharedVars, snapVars, copyVars>>

\* ResilientBuffer.Reset()
RbReset ==
    /\ rbMu = "unlocked"
    /\ rbOps # 0
    /\ primaryBuffer' = LbReset(primaryBuffer)
    /\ fallbackBuffer' = LbReset(fallbackBuffer)
    /\ usingFallback' = FALSE
    /\ retryCount' = 0
    /\ lastError' = "nil"
    /\ rbOps' = 0
    /\ faultRun' = 0
    /\ faultsTotal' = 0
    /\ atSwitch' = NoSwitch
    /\ afterSwitch' = <<>>
    /\ rbLast' = NoCall
    /\ UNCHANGED <<rbMu, recoveryConfig, canFail>>
    /\ UNCHANGED <<streamVars, retryVars, backoffVars, breakerVars, bufferVars, classifyVars,
                   sharedVars, snapVars, copyVars>>

\* ResilientBuffer.Bytes(), the snapshot
RbBytes ==
    IF usingFallback THEN LbBytes(fallbackBuffer) ELSE LbBytes(primaryBuffer)

NextResilient ==
    \/ \E p \in RbWriteData, o \in Outcomes : RbWrite(p, o)
    \/ RbReset

----------------------------------------------------------------------------
(* ParseError *)

\* A diagnostic text is a sequence of units: a space, a line break, or a run
\* of characters without either that is taken whole.
Space == " "
Newline == "\n"

\* the runs of characters the diagnostics are made of
Words == {"boom", "Invalid", "TIMEOUT", "timed out", "MCP", "Session",
          "401", "429", "Not Allowed", "Unauthorized Tool"}

\* the diagnostic texts ParseError is given
Stderrs == SeqsUpTo(Words \cup {Space, Newline}, MaxTextLen)

\* the exit statuses ParseError is given
ExitCodes == {1, 2}

\* unicode.IsSpace on a unit
IsSpace(u) == u \in {Space, Newline}

\* strings.TrimSpace
RECURSIVE TrimLeft(_)
TrimLeft(s) == IF s # <<>> /\ IsSpace(Head(s)) THEN TrimLeft(Tail(s)) ELSE s

RECURSIVE TrimRight(_)
TrimRight(s) ==
    IF s # <<>> /\ IsSpace(s[Len(s)]) THEN TrimRight(SubSeq(s, 1, Len(s) - 1))
    ELSE s

TrimSpace(s) == TrimRight(TrimLeft(s))

\* strings.ToLower on a unit
LowerWord(u) ==
    CASE u = "Invalid" -> "invalid"
      [] u = "TIMEOUT" -> "timeout"
      [] u = "MCP" -> "mcp"
      [] u = "Session" -> "session"
      [] u = "Not Allowed" -> "not allowed"
      [] u = "Unauthorized Tool" -> "unauthorized tool"
      [] u = "MCP server error" -> "mcp server error"
      [] OTHER -> u

\* strings.ToLower
ToLower(s) == [i \in 1..Len(s) |-> LowerWord(s[i])]

\* the needles of ParseError that are substrings of a lower-case word
SubstringsOf(w) ==
    CASE w = "unauthorized tool" -> {"unauthorized tool", "unauthorized"}
      [] w = "mcp server error" -> {"mcp server error", "mcp server", "mcp",
                                    "server error"}
      [] OTHER -> {w}

\* strings.Contains(haystack, needle)
Contains(haystack, needle) ==
    \E i \in 1..Len(haystack) : needle \in SubstringsOf(haystack[i])

\* containsAny(haystack, needles)
containsAny(haystack, needles) == \E n \in needles : Contains(haystack, n)

\* one `if containsAny(lowerStderr, ...) { return &ClaudeError{...} }`
Check(type, message, needles) ==
    [Type |-> type, Message |-> <<message>>, needles |-> needles]

\* mutant: the network keywords are tested before the MCP keywords
Checks_NetworkFirst ==
    << Check("authentication",
             "Authentication failed - check ANTHROPIC_API_KEY environment variable",
             {"authentication", "api key", "unauthorized", "401", "forbidden",
              "403", "invalid api key", "missing api key", "anthropic_api_key"}),
       Check("rate_limit", "Rate limit exceeded - please wait before retrying",
             {"rate limit", "too many requests", "429", "quota exceeded",
              "request limit", "usage limit"}),
       Check("permission",
             "Tool usage not permitted - check allowed/disallowed tools configuration",
             {"permission denied", "not allowed", "tool not permitted",
              "access denied", "insufficient permissions", "unauthorized tool"}),
       Check("network", "Network connectivity issue",
             {"network", "connection", "timeout", "dns", "unreachable",
              "connection refused", "connection reset", "socket", "no internet"}),
       Check("mcp", "MCP server error",
             {"mcp", "model context protocol", "mcp server", "mcp tool",
              "mcp config", "server error", "protocol error"}),
       Check("timeout", "Operation timed out",
             {"timeout", "timed out", "deadline exceeded", "context deadline"}),
       Check("session", "Session management error",
             {"session", "session not found", "invalid session",
              "session expired", "resume", "conversation not found"}),
       Check("validation", "Input validation failed",
             {"invalid", "validation", "malformed", "bad request", "400",
              "invalid argument", "invalid option", "invalid flag"}) >>

\* the keyword tests of ParseError, in the order the code makes them
Checks ==
    << Check("authentication",
             "Authentication failed - check ANTHROPIC_API_KEY environment variable",
             {"authentication", "api key", "unauthorized", "401", "forbidden",
              "403", "invalid api key", "missing api key", "anthropic_api_key"}),
       Check("rate_limit", "Rate limit exceeded - please wait before retrying",
             {"rate limit", "too many requests", "429", "quota exceeded",
              "request limit", "usage limit"}),
       Check("permission",
             "Tool usage not permitted - check allowed/disallowed tools configuration",
             {"permission denied", "not allowed", "tool not permitted",
              "access denied", "insufficient permissions", "unauthorized tool"}),
       Check("mcp", "MCP server error",
             {"mcp", "model context protocol", "mcp server", "mcp tool",
              "mcp config", "server error", "protocol error"}),
       Check("network", "Network connectivity issue",
             {"network", "connection", "timeout", "dns", "unreachable",
              "connection refused", "connection reset", "socket", "no internet"}),
       Check("timeout", "Operation timed out",
             {"timeout", "timed out", "deadline exceeded", "context deadline"}),
       Check("session", "Session management error",
             {"session", "session not found", "invalid session",
              "session expired", "resume", "conversation not found"}),
       Check("validation", "Input validation failed",
             {"invalid", "validation", "malformed", "bad request", "400",
              "invalid argument", "invalid option", "invalid flag"}) >>

\* strings.Split(stderr, "\n")[0]
FirstLine(s) ==
    IF \E i \in 1..Len(s) : s[i] = Newline
    THEN SubSeq(s, 1, (CHOOSE i \in 1..Len(s) :
                          s[i] = Newline /\ \A j \in 1..(i - 1) : s[j] # Newline) - 1)
    ELSE s

\* the Message of the generic command error, from the trimmed text
CommandMessage(stderr) ==
    IF stderr # <<>> /\ TrimSpace(FirstLine(stderr)) # <<>>
    THEN TrimSpace(FirstLine(stderr))
    ELSE <<"Command execution failed">>

\* ParseError(stderr, exitCode)
ParseError(stderr, code) ==
    LET trimmed == TrimSpace(stderr)
        lowerStderr == ToLower(trimmed)
        hits == {i \in 1..Len(Checks) : containsAny(lowerStderr, Checks[i].needles)}
    IN  IF hits # {}
        THEN LET first == CHOOSE i \in hits : \A j \in hits : i <= j
             IN  [Type |-> Checks[first].Type, Message |-> Checks[first].Message,
                  Code |-> code, Stderr |-> trimmed,
                  Details |-> {"suggestion", "stderr"}]
        ELSE [Type |-> "command", Message |-> CommandMessage(trimmed),
              Code |-> code, Stderr |-> trimmed, Details |-> {"stderr"}]

\* the keywords of isMCPConnectionError that occur in strings.ToLower(e.Message)
MessageKeywords(message) ==
    {k \in ConnectionKeywords \cup ConfigKeywords : Contains(ToLower(message), k)}

\* the *ClaudeError ParseError returned, as IsRetryable reads it
Returned(r) == ClaudeErr(r.Type, MessageKeywords(r.Message), 0)

\* a call ParseError(stderr, exitCode)
Classify ==
    /\ peResult = NotParsed
    /\ peResult' = ParseError(peStderr, peExitCode)
    /\ UNCHANGED <<peStderr, peExitCode>>
    /\ UNCHANGED <<streamVars, retryVars, backoffVars, breakerVars, bufferVars,
                   resilientVars, sharedVars, snapVars, copyVars>>

NextClassify == Classify

----------------------------------------------------------------------------
(* LimitedBuffer.Bytes and the array behind the buffer *)

\* a byte of the array that was never written
ZeroByte == "0"

\* n bytes never written
Zeros(n) == [i \in 1..n |-> ZeroByte]

\* NewLimitedBuffer(maxSize, truncationSuffix), whose bytes.Buffer has no array
\* yet
NewSnapBuffer ==
    /\ \E size \in 1..MaxCapacity, suffix \in Suffixes :
          snLb = LimitedBuffer(size, suffix)
    /\ snStore = <<>>
    /\ snSnap = NoSnapshot
    /\ snOps = 0

\* the capacities bytes.Buffer can give the new array when need bytes have to
\* fit: at least need, how much more is the runtime's choice
NewCaps(need, limit) == need..(IF limit > need THEN limit ELSE need)

\* the array after a was copied in behind the n bytes held
CopiedIn(store, n, a) ==
    [i \in 1..Len(store) |->
        IF i > n /\ i <= n + Len(a) THEN a[i - n] ELSE store[i]]

\* the slice the caller holds, after the buffer moved to a new array: it keeps
\* the old array, which nothing writes any more
Detached(snap, store) ==
    IF snap.aliased
    THEN [snap EXCEPT !.aliased = FALSE, !.bytes = SubSeq(store, 1, snap.len)]
    ELSE snap

\* LimitedBuffer.Write(p), with what lb.buf.Write does to the array
SnWrite(p) ==
    /\ snOps < MaxWrites
    /\ snOps' = snOps + 1
    /\ snLb' = LbWrite(snLb, p)
    /\ LET a == LbAccepted(snLb, p)
           n == Len(snLb.buf)
       IN  IF snLb.written >= snLb.maxSize
           THEN UNCHANGED <<snStore, snSnap>>
           ELSE IF n + Len(a) <= Len(snStore)
           THEN /\ snStore' = CopiedIn(snStore, n, a)
                /\ UNCHANGED snSnap
           ELSE /\ \E c \in NewCaps(n + Len(a), snLb.maxSize) :
                      snStore' = (snLb.buf \o a) \o Zeros(c - (n + Len(a)))
                /\ snSnap' = Detached(snSnap, snStore)
    /\ UNCHANGED <<streamVars, retryVars, backoffVars, breakerVars, bufferVars,
                   resilientVars, classifyVars, sharedVars, copyVars>>

\* LimitedBuffer.Reset(): bytes.Buffer.Reset keeps the array
SnReset ==
    /\ snLb' = LbReset(snLb)
    /\ UNCHANGED <<snStore, snSnap, snOps>>
    /\ UNCHANGED <<streamVars, retryVars, backoffVars, breakerVars, bufferVars,
                   resilientVars, classifyVars, sharedVars, copyVars>>

\* the slice Bytes() returns: lb.buf.Bytes() itself, which shares the array,
\* or for a truncated buffer with a suffix a new slice
SliceOf(lb) ==
    IF lb.truncated /\ lb.truncSuf # <<>>
    THEN [taken |-> TRUE, aliased |-> FALSE, len |-> Len(lb.buf) + Len(lb.truncSuf),
          bytes |-> lb.buf \o lb.truncSuf, was |-> lb.buf \o lb.truncSuf]
    ELSE [taken |-> TRUE, aliased |-> TRUE, len |-> Len(lb.buf), bytes |-> <<>>,
          was |-> lb.buf]

\* data := lb.Bytes(), kept by the caller
SnBytes ==
    /\ ~snSnap.taken
    /\ snSnap' = SliceOf(snLb)
    /\ UNCHANGED <<snLb, snStore, snOps>>
    /\ UNCHANGED <<streamVars, retryVars, backoffVars, breakerVars, bufferVars,
                   resilientVars, classifyVars, sharedVars, copyVars>>

\* what the caller reads in the slice now
SliceNow ==
    IF snSnap.aliased THEN SubSeq(snStore, 1, snSnap.len) ELSE snSnap.bytes

NextSnapshot ==
    \/ \E p \in WriteData : SnWrite(p)
    \/ SnReset
    \/ SnBytes

----------------------------------------------------------------------------
(* LimitedBuffer used by several goroutines *)

\* NewLimitedBuffer(maxSize, truncationSuffix), shared by the goroutines
NewSharedBuffer ==
    /\ \E size \in 1..MaxCapacity, suffix \in Suffixes :
          shLb = LimitedBuffer(size, suffix)
    /\ shMu = 0
    /\ shPc = [g \in Goroutines |-> "idle"]
    /\ shData = [g \in Goroutines |-> <<>>]
    /\ shN = [g \in Goroutines |-> 0]
    /\ shCalls = 0
    /\ shObs = [g \in Goroutines |-> <<0, 0>>]

\* the data of the k-th call, made by goroutine g: len bytes that name the call
CallData(g, k, len) == [i \in 1..len |-> <<g, k>>]

\* mutant: Lock does not wait for the goroutine that holds the mutex
CanLock_Always == TRUE

\* lb.mu.Lock() returns when no goroutine holds the mutex
CanLock == shMu = 0

\* lb.mu.RLock() returns when no goroutine holds the mutex for writing
CanRLock == shMu = 0

\* goroutine g calls Write(p) or Reset(): lb.mu.Lock()
ShLock(g) ==
    /\ shPc[g] = "idle"
    /\ shCalls < MaxWrites
    /\ CanLock
    /\ shMu' = g
    /\ shCalls' = shCalls + 1
    /\ \/ \E len \in 0..MaxWriteLen :
             /\ shData' = [shData EXCEPT ![g] = CallData(g, shCalls + 1, len)]
             /\ shPc' = [shPc EXCEPT ![g] = "check"]
       \/ /\ shPc' = [shPc EXCEPT ![g] = "reset"]
          /\ UNCHANGED shData
    /\ UNCHANGED <<shLb, shN, shObs>>
    /\ UNCHANGED <<streamVars, retryVars, backoffVars, breakerVars, bufferVars,
                   resilientVars, classifyVars, snapVars, copyVars>>

\* Write: the test of the room left and the cut of p
ShCheck(g) ==
    /\ shPc[g] = "check"
    /\ IF shLb.written >= shLb.maxSize
       THEN /\ shLb' = [shLb EXCEPT !.truncated = TRUE]
            /\ shPc' = [shPc EXCEPT ![g] = "unlock"]
            /\ UNCHANGED shData
       ELSE /\ shPc' = [shPc EXCEPT ![g] = "append"]
            /\ IF Len(shData[g]) > shLb.maxSize - shLb.written
               THEN /\ shData' = [shData EXCEPT
                                    ![g] = SubSeq(@, 1, shLb.maxSize - shLb.written)]
                    /\ shLb' = [shLb EXCEPT !.truncated = TRUE]
               ELSE UNCHANGED <<shData, shLb>>
    /\ UNCHANGED <<shMu, shN, shCalls, shObs>>
    /\ UNCHANGED <<streamVars, retryVars, backoffVars, breakerVars, bufferVars,
                   resilientVars, classifyVars, snapVars, copyVars>>

\* Write: lb.buf.Write(p) copies one more byte of p into the buffer
ShAppend(g) ==
    /\ shPc[g] = "append"
    /\ shData[g] # <<>>
    /\ shLb' = [shLb EXCEPT !.buf = Append(@, Head(shData[g]))]
    /\ shData' = [shData EXCEPT ![g] = Tail(@)]
    /\ shN' = [shN EXCEPT ![g] = @ + 1]
    /\ UNCHANGED <<shMu, shPc, shCalls, shObs>>
    /\ UNCHANGED <<streamVars, retryVars, backoffVars, breakerVars, bufferVars,
                   resilientVars, classifyVars, snapVars, copyVars>>

\* Write: lb.buf.Write(p) has returned n, and lb.written += int64(n)
ShCount(g) ==
    /\ shPc[g] = "append"
    /\ shData[g] = <<>>
    /\ shLb' = [shLb EXCEPT !.written = @ + shN[g]]
    /\ shPc' = [shPc EXCEPT ![g] = "unlock"]
    /\ UNCHANGED <<shMu, shData, shN, shCalls, shObs>>
    /\ UNCHANGED <<streamVars, retryVars, backoffVars, breakerVars, bufferVars,
                   resilientVars, classifyVars, snapVars, copyVars>>

\* Reset: the three assignments made under the lock
ShReset(g) ==
    /\ shPc[g] = "reset"
    /\ shLb' = LbReset(shLb)
    /\ shPc' = [shPc EXCEPT ![g] = "unlock"]
    /\ UNCHANGED <<shMu, shData, shN, shCalls, shObs>>
    /\ UNCHANGED <<streamVars, retryVars, backoffVars, breakerVars, bufferVars,
                   resilientVars, classifyVars, snapVars, copyVars>>

\* the deferred lb.mu.Unlock() of Write and Reset
ShUnlock(g) ==
    /\ shPc[g] = "unlock"
    /\ shMu' = 0
    /\ shPc' = [shPc EXCEPT ![g] = "idle"]
    /\ shN' = [shN EXCEPT ![g] = 0]
    /\ UNCHANGED <<shLb, shData, shCalls, shObs>>
    /\ UNCHANGED <<streamVars, retryVars, backoffVars, breakerVars, bufferVars,
                   resilientVars, classifyVars, snapVars, copyVars>>

\* goroutine g calls Size() and Bytes() under the read lock: what Size
\* returned and the length of the content
ShRead(g) ==
    /\ shPc[g] = "idle"
    /\ CanRLock
    /\ shObs' = [shObs EXCEPT ![g] = <<shLb.written, Len(shLb.buf)>>]
    /\ UNCHANGED <<shLb, shMu, shPc, shData, shN, shCalls>>
    /\ UNCHANGED <<streamVars, retryVars, backoffVars, breakerVars, bufferVars,
                   resilientVars, classifyVars, snapVars, copyVars>>

NextShared ==
    \E g \in Goroutines :
        \/ ShLock(g)
        \/ ShCheck(g)
        \/ ShAppend(g)
        \/ ShCount(g)
        \/ ShReset(g)
        \/ ShUnlock(g)
        \/ ShRead(g)

----------------------------------------------------------------------------
(* BufferManager.CopyWithTimeout *)

\* CopyWithTimeout(ctx, dst, src) is called: the source has some chunks to
\* deliver
CopyStart ==
    /\ cwPc = "start"
    /\ cwResult = "none"
    /\ cpPc = "idle"
    /\ cpSrc \in 0..MaxChunks
    /\ cpDst = 0
    /\ cwDone = <<>>
    /\ cwCtxDone = FALSE

\* context.WithTimeout, done := make(chan error, 1) and `go func() { ... }()`
CwGo ==
    /\ cwPc = "start"
    /\ cwPc' = "select"
    /\ cpPc' = "read"
    /\ UNCHANGED <<cwResult, cpSrc, cpDst, cwDone, cwCtxDone>>
    /\ UNCHANGED <<streamVars, retryVars, backoffVars, breakerVars, bufferVars,
                   resilientVars, classifyVars, sharedVars, snapVars>>

\* io.Copy reads from src: a chunk, the end of the source, or an error; at
\* the end and on an error io.Copy returns and `done <- err` is made
CpRead ==
    /\ cpPc = "read"
    /\ \/ /\ cpSrc > 0
          /\ cpSrc' = cpSrc - 1
          /\ cpPc' = "write"
          /\ UNCHANGED cwDone
       \/ /\ cpSrc = 0
          /\ cwDone' = Append(cwDone, "nil")
          /\ cpPc' = "exited"
          /\ UNCHANGED cpSrc
       \/ /\ cwDone' = Append(cwDone, "err")
          /\ cpPc' = "exited"
          /\ UNCHANGED cpSrc
    /\ UNCHANGED <<cwPc, cwResult, cpDst, cwCtxDone>>
    /\ UNCHANGED <<streamVars, retryVars, backoffVars, breakerVars, bufferVars,
                   resilientVars, classifyVars, sharedVars, snapVars>>

\* io.Copy writes the chunk it read to dst, or dst.Write fails
CpWrite ==
    /\ cpPc = "write"
    /\ \/ /\ cpDst' = cpDst + 1
          /\ cpPc' = "read"
          /\ UNCHANGED cwDone
       \/ /\ cwDone' = Append(cwDone, "err")
          /\ cpPc' = "exited"
          /\ UNCHANGED cpDst
    /\ UNCHANGED <<cwPc, cwResult, cpSrc, cwCtxDone>>
    /\ UNCHANGED <<streamVars, retryVars, backoffVars, breakerVars, bufferVars,
                   resilientVars, classifyVars, sharedVars, snapVars>>

\* BufferTimeout passes, or the caller's context is cancelled
CwTimeout ==
    /\ cwPc \in {"start", "select"}
    /\ ~cwCtxDone
    /\ cwCtxDone' = TRUE
    /\ UNCHANGED <<cwPc, cwResult, cpPc, cpSrc, cpDst, cwDone>>
    /\ UNCHANGED <<streamVars, retryVars, backoffVars, breakerVars, bufferVars,
                   resilientVars, classifyVars, sharedVars, snapVars>>

\* `case err := <-done: return err`, and the deferred cancel()
CwReturnCopy ==
    /\ cwPc = "select"
    /\ cwDone # <<>>
    /\ cwResult' = Head(cwDone)
    /\ cwDone' = Tail(cwDone)
    /\ cwPc' = "returned"
    /\ cwCtxDone' = TRUE
    /\ UNCHANGED <<cpPc, cpSrc, cpDst>>
    /\ UNCHANGED <<streamVars, retryVars, backoffVars, breakerVars, bufferVars,
                   resilientVars, classifyVars, sharedVars, snapVars>>

\* `case <-ctx.Done(): return fmt.Errorf("buffer copy timeout: %w", ctx.Err())`
CwReturnTimeout ==
    /\ cwPc = "select"
    /\ cwCtxDone
    /\ cwResult' = "timeout"
    /\ cwPc' = "returned"
    /\ UNCHANGED <<cpPc, cpSrc, cpDst, cwDone, cwCtxDone>>
    /\ UNCHANGED <<streamVars, retryVars, backoffVars, breakerVars, bufferVars,
                   resilientVars, classifyVars, sharedVars, snapVars>>

NextCopy ==
    \/ CwGo
    \/ CpRead
    \/ CpWrite
    \/ CwTimeout
    \/ CwReturnCopy
    \/ CwReturnTimeout

----------------------------------------------------------------------------
(* StreamPrompt: the pipeline goroutine *)

\* mutant: errCh has no buffer, and nobody is receiving when the send is made
SendErr_Unbuffered(e) ==
    /\ Len(errCh) < 0
    /\ errCh' = Append(errCh, e)

\* errCh <- e: a send on the buffered error channel, possible while it has room
SendErr(e) ==
    /\ Len(errCh) < ErrChCap
    /\ errCh' = Append(errCh, e)

\* mutant: the `return` after a send on errCh is missing, the loop goes on
AfterSendErr_Continue == "scan"

\* where the goroutine goes after it sent an error: every send on errCh is
\* followed by `return`, which runs the deferred closes
AfterSendErr == "return"

\* StreamPrompt has made the two channels and started the goroutine
StreamStart ==
    /\ lines = <<>>
    /\ exitCode = 0
    /\ procState = "unstarted"
    /\ errWritten = 0
    /\ stdoutPipe = <<>>
    /\ stderrPipe = <<>>
    /\ pipesClosed = FALSE
    /\ drain = "none"
    /\ stderrBuf = <<>>
    /\ pc = "new"
    /\ msg = [Type |-> 0]
    /\ decoded = <<>>
    /\ errCh = <<>>
    /\ errClosed = 0
    /\ msgClosed = 0
    /\ cancelled = FALSE
    /\ cancelAt = -1
    /\ consumerActive = TRUE
    /\ received = <<>>
    /\ gotErrs = <<>>
    /\ waited = FALSE

\* cmd.StdoutPipe(), cmd.StderrPipe() and the start of the stderr goroutine
GetPipes ==
    /\ pc = "new"
    /\ \/ /\ drain' = "running"
          /\ pc' = "start"
          /\ UNCHANGED errCh
       \/ /\ SendErr(PipeError)
          /\ pc' = AfterSendErr
          /\ UNCHANGED drain
    /\ UNCHANGED <<lines, exitCode, procState, errWritten, stdoutPipe, stderrPipe,
                   pipesClosed, stderrBuf, msg, decoded, errClosed, msgClosed,
                   cancelled, cancelAt, consumerActive, received, gotErrs, waited>>
    /\ UNCHANGED <<retryVars, unitVars>>

\* cmd.Start(): it fails when the context is already done or the binary cannot
\* be started, and a failed Start closes the pipes
Start ==
    /\ pc = "start"
    /\ \/ /\ ~cancelled
          /\ procState' = "running"
          /\ pc' = "scan"
          /\ UNCHANGED <<errCh, pipesClosed>>
       \/ /\ SendErr(StartError)
          /\ pipesClosed' = TRUE
          /\ pc' = AfterSendErr
          /\ UNCHANGED procState
    /\ UNCHANGED <<lines, exitCode, errWritten, stdoutPipe, stderrPipe, drain,
                   stderrBuf, msg, decoded, errClosed, msgClosed, cancelled,
                   cancelAt, consumerActive, received, gotErrs, waited>>
    /\ UNCHANGED <<retryVars, unitVars>>

\* one turn of `for scanner.Scan()` on a line of the pipe: the scan itself,
\* the blank-line test and json.Unmarshal
ScanLine ==
    /\ pc = "scan"
    /\ stdoutPipe # <<>>
    /\ LET line == Head(stdoutPipe)
       IN  /\ stdoutPipe' = Tail(stdoutPipe)
           /\ IF ScanTooLong(line)
              THEN /\ SendErr(ScannerError)
                   /\ pc' = AfterSendErr
                   /\ UNCHANGED <<msg, decoded>>
              ELSE IF IsBlank(line)
              THEN /\ pc' = "scan"
                   /\ UNCHANGED <<msg, decoded, errCh>>
              ELSE IF ~Unmarshal(line).ok
              THEN /\ SendErr(ParseJSONError)
                   /\ pc' = AfterSendErr
                   /\ UNCHANGED <<msg, decoded>>
              ELSE /\ msg' = Unmarshal(line).msg
                   /\ decoded' = Append(decoded, Unmarshal(line).msg)
                   /\ pc' = "publish"
                   /\ UNCHANGED errCh
    /\ UNCHANGED <<lines, exitCode, procState, errWritten, stderrPipe, pipesClosed,
                   drain, stderrBuf, errClosed, msgClosed, cancelled, cancelAt,
                   consumerActive, received, gotErrs, waited>>
    /\ UNCHANGED <<retryVars, unitVars>>

\* scanner.Scan() returns false at end of stream: the pipe is empty and the
\* child's end of it is closed; scanner.Err() is nil
ScanEOF ==
    /\ pc = "scan"
    /\ stdoutPipe = <<>>
    /\ procState \in {"exited", "killed"}
    /\ pc' = "wait"
    /\ UNCHANGED <<lines, exitCode, procState, errWritten, stdoutPipe, stderrPipe,
                   pipesClosed, drain, stderrBuf, msg, decoded, errCh, errClosed,
                   msgClosed, cancelled, cancelAt, consumerActive, received,
                   gotErrs, waited>>
    /\ UNCHANGED <<retryVars, unitVars>>

\* mutant: a non-blocking send, which drops the message
Deliver_Drop ==
    /\ pc = "publish"
    /\ pc' = "scan"
    /\ UNCHANGED <<lines, exitCode, procState, errWritten, stdoutPipe, stderrPipe,
                   pipesClosed, drain, stderrBuf, msg, decoded, errCh, errClosed,
                   msgClosed, cancelled, cancelAt, consumerActive, received,
                   gotErrs, waited>>
    /\ UNCHANGED <<retryVars, unitVars>>

\* `case messageCh <- msg`: messageCh is unbuffered, so the send happens
\* together with the consumer's receive
Deliver ==
    /\ pc = "publish"
    /\ consumerActive
    /\ received' = Append(received, msg)
    /\ pc' = "scan"
    /\ UNCHANGED <<lines, exitCode, procState, errWritten, stdoutPipe, stderrPipe,
                   pipesClosed, drain, stderrBuf, msg, decoded, errCh, errClosed,
                   msgClosed, cancelled, cancelAt, consumerActive, gotErrs, waited>>
    /\ UNCHANGED <<retryVars, unitVars>>

\* mutant: the publish is given up without sending ctx.Err()
AbortPublish_Silent ==
    /\ pc = "publish"
    /\ cancelled
    /\ pc' = "return"
    /\ UNCHANGED <<lines, exitCode, procState, errWritten, stdoutPipe, stderrPipe,
                   pipesClosed, drain, stderrBuf, msg, decoded, errCh, errClosed,
                   msgClosed, cancelled, cancelAt, consumerActive, received,
                   gotErrs, waited>>
    /\ UNCHANGED <<retryVars, unitVars>>

\* `case <-ctx.Done()`: the publish is given up and ctx.Err() is sent
AbortPublish ==
    /\ pc = "publish"
    /\ cancelled
    /\ SendErr(CtxError)
    /\ pc' = AfterSendErr
    /\ UNCHANGED <<lines, exitCode, procState, errWritten, stdoutPipe, stderrPipe,
                   pipesClosed, drain, stderrBuf, msg, decoded, errClosed, msgClosed,
                   cancelled, cancelAt, consumerActive, received, gotErrs, waited>>
    /\ UNCHANGED <<retryVars, unitVars>>

\* the error cmd.Wait() returns: "exit" (an *exec.ExitError), "ctx" (the
\* context's error, reported by os/exec when the context ended before the child
\* was reaped) or "nil"
WaitResults ==
    IF procState = "killed" \/ exitCode # 0 THEN {"exit"}
    ELSE IF cancelled THEN {"nil", "ctx"}
    ELSE {"nil"}

\* exitError.ExitCode() for an ExitError (-1 for a child ended by a signal),
\* else 1
ExitCodeOf(werr) ==
    IF werr = "exit" THEN (IF procState = "killed" THEN -1 ELSE exitCode) ELSE 1

\* cmd.Wait() and the handling of its error: Wait returns once the child has
\* ended, closes the parent's ends of the pipes, and a non-nil error is
\* classified from the current contents of stderrBuf.  The read of stderrBuf
\* is not ordered with the drain goroutine's writes: under the interleavings
\* of DrainCopy it yields every prefix of the diagnostic output.
WaitAndClassify ==
    /\ pc = "wait"
    /\ procState \in {"exited", "killed"}
    /\ waited' = TRUE
    /\ pipesClosed' = TRUE
    /\ \E werr \in WaitResults :
          IF werr = "nil"
          THEN /\ pc' = "return"
               /\ UNCHANGED errCh
          ELSE /\ SendErr(ClassifiedExit(stderrBuf, ExitCodeOf(werr)))
               /\ pc' = AfterSendErr
    /\ UNCHANGED <<lines, exitCode, procState, errWritten, stdoutPipe, stderrPipe,
                   drain, stderrBuf, msg, decoded, errClosed, msgClosed, cancelled,
                   cancelAt, consumerActive, received, gotErrs>>
    /\ UNCHANGED <<retryVars, unitVars>>

\* defer close(errCh): the deferred call registered last runs first
CloseErrCh ==
    /\ pc = "return"
    /\ errClosed' = errClosed + 1
    /\ pc' = "closeMsg"
    /\ UNCHANGED <<lines, exitCode, procState, errWritten, stdoutPipe, stderrPipe,
                   pipesClosed, drain, stderrBuf, msg, decoded, errCh, msgClosed,
                   cancelled, cancelAt, consumerActive, received, gotErrs, waited>>
    /\ UNCHANGED <<retryVars, unitVars>>

\* defer close(messageCh)
CloseMessageCh ==
    /\ pc = "closeMsg"
    /\ msgClosed' = msgClosed + 1
    /\ pc' = "done"
    /\ UNCHANGED <<lines, exitCode, procState, errWritten, stdoutPipe, stderrPipe,
                   pipesClosed, drain, stderrBuf, msg, decoded, errCh, errClosed,
                   cancelled, cancelAt, consumerActive, received, gotErrs, waited>>
    /\ UNCHANGED <<retryVars, unitVars>>

----------------------------------------------------------------------------
(* StreamPrompt: the stderr goroutine, io.Copy(stderrBuf, stderr) *)

\* what one Write of the copy leaves in the buffer: stderrBuf is a
\* bytes.Buffer, which grows without limit
BufferWrite(b, data) == b \o data

\* one read of the pipe and the write of what was read to stderrBuf
DrainCopy ==
    /\ drain = "running"
    /\ ~pipesClosed
    /\ stderrPipe # <<>>
    /\ stderrBuf' = BufferWrite(stderrBuf, <<Head(stderrPipe)>>)
    /\ stderrPipe' = Tail(stderrPipe)
    /\ UNCHANGED <<lines, exitCode, procState, errWritten, stdoutPipe, pipesClosed,
                   drain, pc, msg, decoded, errCh, errClosed, msgClosed, cancelled,
                   cancelAt, consumerActive, received, gotErrs, waited>>
    /\ UNCHANGED <<retryVars, unitVars>>

\* the copy ends: end of stream, or a read of a pipe the parent has closed
DrainEnd ==
    /\ drain = "running"
    /\ \/ pipesClosed
       \/ stderrPipe = <<>> /\ procState \in {"exited", "killed"}
    /\ drain' = "done"
    /\ UNCHANGED <<lines, exitCode, procState, errWritten, stdoutPipe, stderrPipe,
                   pipesClosed, stderrBuf, pc, msg, decoded, errCh, errClosed,
                   msgClosed, cancelled, cancelAt, consumerActive, received,
                   gotErrs, waited>>
    /\ UNCHANGED <<retryVars, unitVars>>

----------------------------------------------------------------------------
(* StreamPrompt: the child process, the context and the consumer *)

\* the child writes one more line to its standard output
ProcWriteOut ==
    /\ procState = "running"
    /\ Len(lines) < MaxLines
    /\ \E line \in Lines :
          /\ lines' = Append(lines, line)
          /\ stdoutPipe' = Append(stdoutPipe, line)
    /\ UNCHANGED <<exitCode, procState, errWritten, stderrPipe, pipesClosed, drain,
                   stderrBuf, pc, msg, decoded, errCh, errClosed, msgClosed,
                   cancelled, cancelAt, consumerActive, received, gotErrs, waited>>
    /\ UNCHANGED <<retryVars, unitVars>>

\* the child writes one more unit to its standard error
ProcWriteErr ==
    /\ procState = "running"
    /\ errWritten < MaxStderrLen
    /\ errWritten' = errWritten + 1
    /\ stderrPipe' = Append(stderrPipe, errWritten + 1)
    /\ UNCHANGED <<lines, exitCode, procState, stdoutPipe, pipesClosed, drain,
                   stderrBuf, pc, msg, decoded, errCh, errClosed, msgClosed,
                   cancelled, cancelAt, consumerActive, received, gotErrs, waited>>
    /\ UNCHANGED <<retryVars, unitVars>>

\* the child ends by itself, with exit status 0 or 1
ProcExit ==
    /\ procState = "running"
    /\ procState' = "exited"
    /\ exitCode' \in {0, 1}
    /\ UNCHANGED <<lines, errWritten, stdoutPipe, stderrPipe, pipesClosed, drain,
                   stderrBuf, pc, msg, decoded, errCh, errClosed, msgClosed,
                   cancelled, cancelAt, consumerActive, received, gotErrs, waited>>
    /\ UNCHANGED <<retryVars, unitVars>>

\* exec.CommandContext: once the context is done the running child is killed
CtxKill ==
    /\ cancelled
    /\ procState = "running"
    /\ procState' = "killed"
    /\ UNCHANGED <<lines, exitCode, errWritten, stdoutPipe, stderrPipe, pipesClosed,
                   drain, stderrBuf, pc, msg, decoded, errCh, errClosed, msgClosed,
                   cancelled, cancelAt, consumerActive, received, gotErrs, waited>>
    /\ UNCHANGED <<retryVars, unitVars>>

\* the caller cancels the context (or its deadline passes)
Cancel ==
    /\ ~cancelled
    /\ cancelled' = TRUE
    /\ cancelAt' = IF pc \in {"return", "closeMsg", "done"} THEN -1 ELSE Len(received)
    /\ UNCHANGED <<lines, exitCode, procState, errWritten, stdoutPipe, stderrPipe,
                   pipesClosed, drain, stderrBuf, pc, msg, decoded, errCh, errClosed,
                   msgClosed, consumerActive, received, gotErrs, waited>>
    /\ UNCHANGED <<retryVars, unitVars>>

\* the consumer stops receiving from messageCh
ConsumerStop ==
    /\ consumerActive
    /\ consumerActive' = FALSE
    /\ UNCHANGED <<lines, exitCode, procState, errWritten, stdoutPipe, stderrPipe,
                   pipesClosed, drain, stderrBuf, pc, msg, decoded, errCh, errClosed,
                   msgClosed, cancelled, cancelAt, received, gotErrs, waited>>
    /\ UNCHANGED <<retryVars, unitVars>>

\* the consumer receives the error waiting in errCh
RecvErr ==
    /\ errCh # <<>>
    /\ gotErrs' = Append(gotErrs, Head(errCh))
    /\ errCh' = Tail(errCh)
    /\ UNCHANGED <<lines, exitCode, procState, errWritten, stdoutPipe, stderrPipe,
                   pipesClosed, drain, stderrBuf, pc, msg, decoded, errClosed,
                   msgClosed, cancelled, cancelAt, consumerActive, received, waited>>
    /\ UNCHANGED <<retryVars, unitVars>>

\* the steps of the pipeline goroutine that need no partner
PipelineStep ==
    \/ GetPipes
    \/ Start
    \/ ScanLine
    \/ ScanEOF
    \/ AbortPublish
    \/ WaitAndClassify
    \/ CloseErrCh
    \/ CloseMessageCh

NextStream ==
    \/ PipelineStep
    \/ Deliver
    \/ DrainCopy
    \/ DrainEnd
    \/ ProcWriteOut
    \/ ProcWriteErr
    \/ ProcExit
    \/ CtxKill
    \/ Cancel
    \/ ConsumerStop
    \/ RecvErr

\* the units outside StreamPrompt and the retry executor are not in use
UnitsIdle ==
    BackoffIdle /\ BreakerIdle /\ BufferIdle /\ ResilientIdle /\ ClassifierIdle /\ UsesIdle

InitStream == StreamStart /\ RetryIdle /\ UnitsIdle

SpecStream == InitStream /\ [][NextStream]_vars

\* no StreamPrompt invocation runs beside the retry executor
InitRetry == StreamStart /\ RetryStart /\ UnitsIdle

SpecRetry == InitRetry /\ [][NextRetry]_vars

\* The goroutine running the retry executor is scheduled: a wait whose timer
\* fired or whose context was cancelled is left, and an attempt returns.
ExecutorStep ==
    \/ LoopTop
    \/ BackoffElapsed
    \/ WaitCancelled
    \/ RunAttempt
    \/ RateWaitElapsed

FairSpecRetry == SpecRetry /\ WF_vars(ExecutorStep)

\* a circuit breaker shared by the callers of Execute
InitBreaker ==
    /\ StreamStart /\ RetryIdle /\ BackoffIdle /\ NewCircuitBreaker
    /\ BufferIdle /\ ResilientIdle /\ ClassifierIdle /\ UsesIdle

SpecBreaker == InitBreaker /\ [][NextBreaker]_vars

\* a bounded buffer that is written to and reset
InitBuffer ==
    /\ StreamStart /\ RetryIdle /\ BackoffIdle /\ BreakerIdle
    /\ NewStdoutBuffer /\ ResilientIdle /\ ClassifierIdle /\ UsesIdle

SpecBuffer == InitBuffer /\ [][NextBuffer]_vars

\* ParseError called on its own, for every text and exit status drawn
InitClassify ==
    /\ StreamStart /\ RetryIdle /\ BackoffIdle /\ BreakerIdle /\ BufferIdle
    /\ ResilientIdle /\ UsesIdle
    /\ peStderr \in Stderrs
    /\ peExitCode \in ExitCodes
    /\ peResult = NotParsed

SpecClassify == InitClassify /\ [][NextClassify]_vars

\* a LimitedBuffer whose caller keeps what Bytes() returned
InitSnapshot ==
    /\ StreamStart /\ RetryIdle /\ BackoffIdle /\ BreakerIdle /\ BufferIdle
    /\ ResilientIdle /\ ClassifierIdle /\ SharedIdle /\ CopyIdle
    /\ NewSnapBuffer

SpecSnapshot == InitSnapshot /\ [][NextSnapshot]_vars

\* a LimitedBuffer that several goroutines write, reset and read
InitShared ==
    /\ StreamStart /\ RetryIdle /\ BackoffIdle /\ BreakerIdle /\ BufferIdle
    /\ ResilientIdle /\ ClassifierIdle /\ SnapIdle /\ CopyIdle
    /\ NewSharedBuffer

SpecShared == InitShared /\ [][NextShared]_vars

\* one call of CopyWithTimeout
InitCopy ==
    /\ StreamStart /\ RetryIdle /\ BackoffIdle /\ BreakerIdle /\ BufferIdle
    /\ ResilientIdle /\ ClassifierIdle /\ SharedIdle /\ SnapIdle
    /\ CopyStart

SpecCopy == InitCopy /\ [][NextCopy]_vars

\* A resilient buffer as NewResilientBuffer makes it: its primary is a
\* LimitedBuffer, whose Write returns no error.
InitResilient ==
    /\ StreamStart /\ RetryIdle /\ BackoffIdle /\ BreakerIdle /\ BufferIdle
    /\ ClassifierIdle /\ UsesIdle
    /\ NewResilientBuffer
    /\ canFail = FALSE

SpecResilient == InitResilient /\ [][NextResilient]_vars

\* A resilient buffer whose primary write can return an error, the case
\* ResilientBuffer.Write provides for at `if err == nil ... rb.lastError = err`.
InitResilientFault ==
    /\ StreamStart /\ RetryIdle /\ BackoffIdle /\ BreakerIdle /\ BufferIdle
    /\ ClassifierIdle /\ UsesIdle
    /\ NewResilientBuffer
    /\ canFail = TRUE

SpecResilientFault == InitResilientFault /\ [][NextResilient]_vars

\* calculateBackoff called on its own, for every policy and platform drawn
InitBackoff == StreamStart /\ BackoffStart

SpecBackoff == InitBackoff /\ [][NextBackoff]_vars

\* Runnable goroutines are scheduled, so the pipeline goroutine takes the step
\* it can take and a send the consumer is ready for happens; the kill armed by
\* exec.CommandContext is delivered.
FairSpecStream ==
    /\ SpecStream
    /\ WF_vars(PipelineStep)
    /\ WF_vars(Deliver)
    /\ WF_vars(CtxKill)

----------------------------------------------------------------------------
(* Properties of StreamPrompt *)

\* every error sent on errCh so far, received or not
ErrsSent == gotErrs \o errCh

ClosedBoth == errClosed = 1 /\ msgClosed = 1

AllWellFormed(ls) == \A i \in 1..Len(ls) : WellFormed(ls[i])

\* lines of `lines` the scanner has taken from the pipe
Scanned == Len(lines) - Len(stdoutPipe)

\* the child wrote only well-formed lines and exited with status 0, the
\* context was not cancelled and the consumer is receiving
CleanRun ==
    /\ procState = "exited"
    /\ exitCode = 0
    /\ AllWellFormed(lines)
    /\ ~cancelled
    /\ consumerActive

C1_Safety ==
    /\ AllWellFormed(lines) => IsPrefix(received, MessagesOf(lines))
    /\ (CleanRun /\ ClosedBoth) => /\ received = MessagesOf(lines)
                                    /\ ErrsSent = <<>>
    /\ CleanRun => ErrsSent = <<>>

C2_CancelMidStream ==
    (/\ pc = "done"
     /\ consumerActive
     /\ AllWellFormed(lines)
     /\ cancelAt >= 1
     /\ cancelAt < Len(MessagesOf(lines)))
    => /\ Len(received) = cancelAt
       /\ ErrsSent = <<CtxError>>

\* once the context is done, the child does not stay running
C2_ProcessTerminated == cancelled ~> procState # "running"

\* the messages the consumer must have received once an error was sent: all
\* the pipeline decoded, but for the one whose publish was given up
PrecedingMessages ==
    IF CtxError \in {ErrsSent[i] : i \in 1..Len(ErrsSent)}
    THEN SubSeq(decoded, 1, Len(decoded) - 1)
    ELSE decoded

C3_Safety ==
    /\ Len(ErrsSent) <= 1
    /\ ErrsSent # <<>> => received = PrecedingMessages
    /\ errClosed <= 1
    /\ msgClosed <= 1
    /\ pc = "done" => ClosedBoth

\* C3: at most one error is sent on errCh per invocation, it is sent only
\* after every message before it was received by the consumer, and each
\* channel is closed exactly once, after the last delivered message and after
\* the error.
C3_TerminalErrorDiscipline ==
    /\ []C3_Safety
    /\ [][(errClosed >= 1 \/ msgClosed >= 1)
            => (received' = received /\ ErrsSent' = ErrsSent)]_vars

\* an invocation that delivered a message, sent an error and closed
C3_Witness ==
    /\ pc = "done"
    /\ ClosedBoth
    /\ Len(received) >= 1
    /\ Len(ErrsSent) = 1

\* the pipeline is blocked publishing: the context is done and the consumer
\* is not receiving
BlockedPublishCancelled == pc = "publish" /\ cancelled /\ ~consumerActive

\* C4: if the context is cancelled while the pipeline is blocked publishing a
\* message the consumer is not receiving, the publish is given up (the message
\* is never delivered), the context's error is sent on errCh and both
\* channels are closed.
C4_NoHangOnCancel ==
    BlockedPublishCancelled
        ~> (/\ pc = "done"
            /\ ClosedBoth
            /\ ErrsSent = <<CtxError>>
            /\ Len(received) < Len(decoded))

\* a publish was given up on cancellation with the consumer gone
C4_Witness ==
    /\ pc = "done"
    /\ ~consumerActive
    /\ ErrsSent = <<CtxError>>
    /\ Len(received) < Len(decoded)

\* the first line of ls that is neither blank nor a JSON object, or 0
FirstBadLine(ls) ==
    IF \A i \in 1..Len(ls) : ls[i].kind \in {"json", "blank"} THEN 0
    ELSE CHOOSE i \in 1..Len(ls) :
            /\ ls[i].kind \notin {"json", "blank"}
            /\ \A j \in 1..(i - 1) : ls[j].kind \in {"json", "blank"}

\* the pipeline has scanned a non-blank line that does not decode
DecodeFailed ==
    /\ FirstBadLine(lines) # 0
    /\ FirstBadLine(lines) <= Scanned
    /\ lines[FirstBadLine(lines)].kind = "garbage"

\* C5: once a non-blank line failed to decode, the consumer has received the
\* messages of the lines before it, in order, and receives no message of that
\* line or a later one, and exactly one error, the decode error, is sent on
\* errCh, before the channels close.
C5_DecodeFailureFatal ==
    DecodeFailed =>
        /\ received = MessagesOf(SubSeq(lines, 1, FirstBadLine(lines) - 1))
        /\ ErrsSent = <<ParseJSONError>>

\* a decode failure has ended the pipeline with a later, well-formed line
\* left undelivered
C5_Witness ==
    /\ DecodeFailed
    /\ pc = "done"
    /\ FirstBadLine(lines) < Len(lines)
    /\ lines[Len(lines)].kind = "json"

\* C6: the error sent after an abnormal end of the child carries the complete
\* diagnostic output the child wrote.
C6_CompleteDiagnostics ==
    \A i \in 1..Len(ErrsSent) :
        ErrsSent[i].kind = "claude" => ErrsSent[i].stderr = Units(errWritten)

\* C7: the diagnostic bytes retained never exceed the capacity of the
\* diagnostic buffer.
C7_DiagnosticsBounded == Len(stderrBuf) <= MaxStderrSize

----------------------------------------------------------------------------
(* Properties of RunPromptWithRetryCtx *)

\* attempt number i was made and failed with an error of a kind that is never
\* retried (authentication, permission, command, validation, session, unknown)
FailedNonRetryable(i) ==
    /\ i \in 1..Len(attempts)
    /\ attempts[i] # NoErr
    /\ attempts[i].Type \in {"authentication", "permission", "command",
                             "validation", "session", "unknown"}

\* C8: an operation whose first attempt fails with a non-retryable error is
\* attempted exactly once, whatever MaxRetries is, and that error is returned
\* without any wait; a non-retryable error of any attempt ends the executor
\* with that error.
C8_NonRetryableOnce ==
    /\ FailedNonRetryable(1) => (Len(attempts) = 1 /\ waits = <<>>)
    /\ \A i \in 1..Len(attempts) :
          FailedNonRetryable(i) => /\ i = Len(attempts)
                                   /\ rpc = "done"
                                   /\ outcome = ErrResult(attempts[i])

\* a policy of the most retries ended after one attempt
C8_Witness ==
    /\ policy.MaxRetries = MaxRetriesBound
    /\ FailedNonRetryable(1)
    /\ rpc = "done"
    /\ rcancelled

\* every attempt allowed by the policy was made and failed with a retryable error
AllAttemptsFailedRetryable ==
    /\ Len(attempts) = policy.MaxRetries + 1
    /\ \A i \in 1..Len(attempts) : attempts[i] # NoErr /\ IsRetryable(attempts[i])

\* C9: the operation is never attempted more than MaxRetries + 1 times, and
\* when all those attempts fail with retryable errors the executor returns the
\* retries-exhausted error wrapping the error of the last attempt.
C9_RetryExhaustion ==
    /\ Len(attempts) <= policy.MaxRetries + 1
    /\ (rpc = "done" /\ AllAttemptsFailedRetryable)
          => outcome = ExhaustedResult(policy.MaxRetries, attempts[Len(attempts)])

\* the backoff waits made before attempt number k
BackoffWaitsBefore(k) ==
    {i \in 1..Len(waits) : waits[i].kind = "backoff" /\ waits[i].before = k}

WaitLength(w) == IF w.kind = "rate" THEN 10 * w.dur ELSE w.dur

RECURSIVE TotalWait(_, _)
\* the total length of the first i waits that were made before attempt number k
TotalWait(i, k) ==
    IF i = 0 THEN 0
    ELSE TotalWait(i - 1, k)
           + (IF waits[i].before = k THEN WaitLength(waits[i]) ELSE 0)

\* attempt number k was made after an attempt that failed with a rate-limit error
RetriedAfterRateLimit(k) ==
    /\ k \in 2..Len(attempts)
    /\ attempts[k - 1].Type = "rate_limit"

\* C11: after an attempt that failed with a rate-limit error, the total wait
\* before the next attempt is the retry-after hint when the error carries one
\* (instead of the computed backoff, not in addition to it) and the computed
\* backoff when it carries none.
C11_RateLimitWait ==
    \A k \in 2..Len(attempts) :
        RetriedAfterRateLimit(k) =>
            TotalWait(Len(waits), k) =
                IF attempts[k - 1].RetryAfter # 0
                THEN 10 * attempts[k - 1].RetryAfter
                ELSE calculateBackoff(policy, k - 1, goarch)

\* the executor blocks in the select of a wait, no case of which was ready
\* when it entered, and the context has been cancelled since
CancelledInWait ==
    /\ rpc \in {"backoff", "ratewait"}
    /\ selReady = {}
    /\ rcancelled

\* C12: when the context is cancelled while the retry executor waits between
\* attempts (backoff wait or rate-limit wait), the next thing the executor does
\* is return the cancellation error, it does so eventually, and it starts no
\* further attempt.
C12_AbortableSleep ==
    /\ [][CancelledInWait =>
             /\ rpc' \in {rpc, "done"}
             /\ rpc' = "done" => outcome' = CtxErrResult
             /\ attempts' = attempts
             /\ waits' = waits]_vars
    /\ CancelledInWait ~> (rpc = "done" /\ outcome = CtxErrResult)

\* after a wait that elapsed, a second attempt failed with a rate-limit error
\* and the wait that followed it was ended by the cancellation
C12_Witness ==
    /\ rpc = "done"
    /\ outcome = CtxErrResult
    /\ selReady = {}
    /\ Len(waits) >= 1
    /\ Len(attempts) = 2
    /\ Len(attempts) <= policy.MaxRetries
    /\ lastErr.Type = "rate_limit"

\* C13: for every attempt n >= 1, calculateBackoff(n) is
\* min(BaseDelay * BackoffFactor^(n-1), MaxDelay), so it never exceeds MaxDelay
\* and does not decrease with n when BackoffFactor >= 1; for every n < 1 it
\* is 0.
C13_BackoffFormula ==
    \A c \in cbResults :
        /\ c[1] >= 1 =>
              /\ c[2] = Min(policy.BaseDelay * Pow(policy.BackoffFactor, c[1] - 1),
                            policy.MaxDelay)
              /\ c[2] <= policy.MaxDelay
              /\ \A d \in cbResults :
                    (policy.BackoffFactor >= 1 /\ c[1] <= d[1]) => c[2] <= d[2]
        /\ c[1] < 1 => c[2] = 0

----------------------------------------------------------------------------
(* Properties of CircuitBreaker *)

\* this step is caller c entering Execute: it is admitted or refused
EntersExecute(c) ==
    /\ callPc[c] = "idle"
    /\ callPc'[c] = "running" \/ callRes'[c] # callRes[c]

\* this step is the recording of the result of caller c's operation
RecordsResult(c) == callPc[c] = "running" /\ callPc'[c] = "idle"

\* the time since the last recorded failure
SinceLastFailure == now - lastFailureTime

\* C14: the state changes only along Closed->Open, Open->HalfOpen,
\* HalfOpen->Closed and HalfOpen->Open, also when Execute calls overlap; it
\* never goes from Open to Closed directly.
C14_TransitionRelation ==
    [][state' # state =>
          <<state, state'>> \in {<<"Closed", "Open">>, <<"Open", "HalfOpen">>,
                                 <<"HalfOpen", "Closed">>, <<"HalfOpen", "Open">>}]_vars

\* C15: an Execute call made while the breaker is Open and less than
\* resetTimeout has passed since the last failure returns the circuit-open
\* error without invoking the operation and leaves the state Open.
C15_OpenShortCircuits ==
    [][\A c \in Callers :
          (state = "Open" /\ SinceLastFailure < resetTimeout /\ EntersExecute(c))
              => /\ callRes'[c] = "rejected"
                 /\ callPc'[c] = "idle"
                 /\ state' = "Open"]_vars

\* a call was refused by a breaker that is Open for less than resetTimeout,
\* while another call was still running its operation
C15_Witness ==
    /\ state = "Open"
    /\ SinceLastFailure < resetTimeout
    /\ \E c, d \in Callers : callRes[c] = "rejected" /\ callPc[d] = "running"

\* C16 as stated: Open->HalfOpen happens only in a step that admits an Execute
\* call, and an Execute call made while Open when the time since the last
\* failure is at least resetTimeout (exactly resetTimeout included) makes the
\* transition and invokes the operation.
C16_LazyHalfOpen_AsStated ==
    [][/\ (state = "Open" /\ state' = "HalfOpen")
             => \E c \in Callers : EntersExecute(c) /\ callPc'[c] = "running"
       /\ \A c \in Callers :
             (state = "Open" /\ SinceLastFailure >= resetTimeout /\ EntersExecute(c))
                 => (state' = "HalfOpen" /\ callPc'[c] = "running")]_vars

\* C16, amended: Open->HalfOpen happens only in a step that admits an Execute
\* call; an Execute call made while Open when more than resetTimeout has
\* passed since the last failure makes the transition and invokes the
\* operation, and one made when exactly resetTimeout or less has passed is
\* refused and leaves the state Open.
C16_LazyHalfOpen ==
    [][/\ (state = "Open" /\ state' = "HalfOpen")
             => \E c \in Callers : EntersExecute(c) /\ callPc'[c] = "running"
       /\ \A c \in Callers :
             (state = "Open" /\ EntersExecute(c)) =>
                 IF SinceLastFailure > resetTimeout
                 THEN state' = "HalfOpen" /\ callPc'[c] = "running"
                 ELSE state' = "Open" /\ callPc'[c] = "idle"]_vars

\* the breaker went to HalfOpen in a call made after more than resetTimeout,
\* after a call made at exactly resetTimeout had been refused
C16_Witness ==
    /\ state = "HalfOpen"
    /\ SinceLastFailure = resetTimeout + 1
    /\ \E c, d \in Callers :
          c # d /\ callPc[c] = "running" /\ callRes[d] = "rejected"

\* C17: while HalfOpen, a recorded success sets the state to Closed and
\* consecutiveFailures to 0, and a recorded failure sets the state to Open and
\* lastFailureTime to the time of that failure.
C17_HalfOpenOutcomes ==
    [][\A c \in Callers :
          (state = "HalfOpen" /\ RecordsResult(c)) =>
              /\ callRes'[c] = "ok" => (state' = "Closed" /\ consecutiveFailures' = 0)
              /\ callRes'[c] = "fail" => (state' = "Open" /\ lastFailureTime' = now)]_vars

\* a single caller's trial call of a HalfOpen breaker failed and the breaker is
\* Open again, with the time of that failure
C17_Witness ==
    /\ state = "Open"
    /\ consecutiveFailures > failureThreshold
    /\ failureThreshold >= 1
    /\ lastFailureTime = now
    /\ now > resetTimeout
    /\ \E c \in Callers :
          /\ callRes[c] = "fail"
          /\ \A d \in Callers \ {c} : callPc[d] = "idle" /\ callRes[d] = "none"

\* C18: for failureThreshold >= 1 the breaker leaves Closed for Open exactly
\* when the consecutive recorded failures reach failureThreshold, a recorded
\* success sets the count to 0, and Closed implies
\* consecutiveFailures < failureThreshold in every reachable state.
C18_FailureThreshold ==
    /\ [](failureThreshold >= 1 =>
             (state = "Closed" => consecutiveFailures < failureThreshold))
    /\ [][failureThreshold >= 1 =>
             \A c \in Callers :
                 RecordsResult(c) =>
                     /\ callRes'[c] = "ok" => consecutiveFailures' = 0
                     /\ (state = "Closed" /\ callRes'[c] = "fail") =>
                           /\ consecutiveFailures' = consecutiveFailures + 1
                           /\ state' = "Open"
                                 <=> consecutiveFailures' = failureThreshold]_vars

\* a breaker of the largest threshold opened after one failure short of the
\* threshold had left it Closed
C18_Witness ==
    /\ failureThreshold = MaxThreshold
    /\ state = "Open"
    /\ consecutiveFailures = failureThreshold
    /\ \A c \in Callers : callRes[c] = "fail"

----------------------------------------------------------------------------
(* Properties of LimitedBuffer *)

RECURSIVE Concat(_)
\* the concatenation of a sequence of byte sequences
Concat(ws) == IF ws = <<>> THEN <<>> ELSE Head(ws) \o Concat(Tail(ws))

\* C19: after any sequence of Write and Reset calls the number of bytes the
\* buffer holds, which Size reports, never exceeds its capacity.
C19_CapacityInvariant == Size <= maxSize /\ Len(buf) = Size

\* a buffer of the largest capacity was filled by writes of which one did not
\* fit, and an empty write followed
C19_Witness ==
    /\ maxSize = MaxCapacity
    /\ Size = maxSize
    /\ Truncated
    /\ Len(writes) >= 2
    /\ Len(Concat(writes)) > maxSize
    /\ lastWrite.n = 0

\* C20: for every sequence of writes, of any lengths and with empty writes
\* among them, whose total size is at most the capacity, the snapshot is the
\* exact concatenation of the written bytes and truncated is false.
C20_BoundedWriteExact ==
    Len(Concat(writes)) <= maxSize => (Bytes = Concat(writes) /\ ~Truncated)

\* the first n elements of a sequence
Take(sq, n) == SubSeq(sq, 1, Min(n, Len(sq)))

\* C21: after any sequence of writes since the last reset the snapshot is the
\* first min(total, capacity) bytes of the concatenation of the written data,
\* a write that straddles the remaining capacity contributing the bytes that
\* fit, followed by the truncation marker if and only if truncated is true.
C21_SnapshotContent ==
    Bytes = Take(Concat(writes), maxSize)
              \o (IF Truncated THEN truncSuf ELSE <<>>)

\* the second write of a buffer with a marker straddled the remaining capacity
C21_Witness ==
    /\ truncSuf # <<>>
    /\ Len(writes) >= 2
    /\ Len(writes[1]) > 0
    /\ Len(writes[1]) < maxSize
    /\ Len(writes[1]) + Len(writes[2]) > maxSize
    /\ Bytes # buf

\* C22: once truncated is true it stays true through every later Write, and
\* it becomes false again only through Reset, which also empties the buffer
\* and sets Size to 0.
C22_TruncatedMonotonic ==
    [][/\ (Truncated /\ Len(writes') > Len(writes)) => Truncated'
       /\ (Truncated /\ ~Truncated') =>
             (writes' = <<>> /\ buf' = <<>> /\ Size' = 0)]_vars

\* the first write was cut, and empty writes followed up to the last
C22_Witness ==
    /\ Truncated
    /\ Len(writes) = MaxWrites
    /\ Len(writes[1]) > maxSize
    /\ \A i \in 2..Len(writes) : writes[i] = <<>>

\* C23 as stated: Write never returns an error and the count it returns is the
\* number of bytes accepted into the buffer.
C23_WriteResult_AsStated ==
    writes # <<>> =>
        /\ lastWrite.err = "nil"
        /\ lastWrite.n = Len(buf) - Len(Take(Concat(SubSeq(writes, 1, Len(writes) - 1)),
                                             maxSize))

\* C23, amended: Write never returns an error and the count it returns is the
\* length of the data it was given, whether or not all of it was accepted.
C23_WriteResult ==
    writes # <<>> =>
        /\ lastWrite.err = "nil"
        /\ lastWrite.n = Len(writes[Len(writes)])

\* a write of which a part was dropped returned the length of its data
C23_Witness ==
    /\ Len(writes) = 1
    /\ Len(writes[1]) > maxSize
    /\ maxSize > 0
    /\ lastWrite.n > Size

\* C24: with the EnableTruncation option disabled, a buffer created from the
\* configuration drops excess bytes silently: its snapshot carries no marker.
C24_TruncationOption ==
    ~config.EnableTruncation => Bytes = buf

\* C25: once the primary write has faulted MaxRetries times in a row, a fault
\* being a panic or a returned error alike, the resilient buffer (with graceful
\* degradation enabled) is using the fallback.
C25_FallbackTrigger ==
    (recoveryConfig.EnableGracefulDegradation
        /\ faultRun >= recoveryConfig.MaxRetries) => usingFallback

\* C26: while the primary is in use, the fault counter is the number of
\* primary-write faults since the last successful primary write.
C26_ConsecutiveFaultCount ==
    (recoveryConfig.EnableGracefulDegradation /\ ~usingFallback)
        => retryCount = faultRun

\* a step that is ResilientBuffer.Reset
IsRbReset == rbOps # 0 /\ rbOps' = 0

\* C27: once the fallback is in use it stays in use, writes leave the primary
\* alone and the snapshot is the fallback's, until Reset; Reset leaves the
\* primary in use, both buffers empty, the retry count 0 and no last error.
C27_FallbackPermanent ==
    [][/\ (usingFallback /\ ~IsRbReset) =>
              /\ usingFallback'
              /\ primaryBuffer' = primaryBuffer
              /\ RbBytes' = LbBytes(fallbackBuffer')
       /\ IsRbReset =>
              /\ ~usingFallback'
              /\ primaryBuffer'.buf = <<>> /\ primaryBuffer'.written = 0
              /\ fallbackBuffer'.buf = <<>> /\ fallbackBuffer'.written = 0
              /\ RbBytes' = <<>>
              /\ retryCount' = 0
              /\ lastError' = "nil"]_vars

\* the fallback is in use and has taken a write of its own after the switch
C27_Witness ==
    /\ usingFallback
    /\ rbLast.outcome = "ok"
    /\ rbLast.n > 0
    /\ primaryBuffer.buf # <<>>

ContainedPanic ==
    /\ ~recoveryConfig.CrashOnPanic
    /\ rbOps' = rbOps + 1
    /\ rbLast'.outcome = "panic"

CategoryOrder ==
    <<"authentication", "rate_limit", "permission", "mcp", "network", "timeout",
      "session", "validation">>

\* the keywords of a category
KeywordsOf(type) ==
    UNION {Checks[i].needles : i \in {j \in 1..Len(Checks) : Checks[j].Type = type}}

\* a keyword of the category occurs in the text, whatever the case of the text
Occurs(text, type) ==
    \E i \in 1..Len(text), k \in KeywordsOf(type) :
        k \in SubstringsOf(LowerWord(text[i]))

\* the positions of the text that are neither space nor line break
NonBlank(text) == {i \in 1..Len(text) : ~IsSpace(text[i])}

\* the first line of the text that is not blank, without the space around it
FirstNonBlankLine(text) ==
    LET i == CHOOSE k \in NonBlank(text) : \A j \in NonBlank(text) : k <= j
        after == {k \in i..Len(text) : text[k] = Newline}
        stop == IF after = {} THEN Len(text)
                ELSE (CHOOSE k \in after : \A j \in after : k <= j) - 1
        last == CHOOSE k \in NonBlank(text) :
                    k <= stop /\ \A j \in NonBlank(text) : j <= stop => j <= k
    IN  SubSeq(text, i, last)

\* C30: the kind ParseError gives is that of the first category, in the order
\* authentication, rate limit, permission, MCP, network, timeout, session,
\* validation, with a keyword occurring in the text in any case; with none, the
\* kind is the command failure, whose message is the first non-blank line of
\* the text, or the fixed message when the text has no such line.
C30_ClassifierPriority ==
    peResult # NotParsed =>
        LET matching == {i \in 1..Len(CategoryOrder) :
                            Occurs(peStderr, CategoryOrder[i])}
        IN  /\ peResult.Code = peExitCode
            /\ IF matching # {}
               THEN peResult.Type =
                        CategoryOrder[CHOOSE i \in matching :
                                          \A j \in matching : i <= j]
               ELSE /\ peResult.Type = "command"
                    /\ peResult.Message =
                          IF NonBlank(peStderr) # {}
                          THEN FirstNonBlankLine(peStderr)
                          ELSE <<"Command execution failed">>

\* a text in capitals with an MCP keyword after a network keyword was
\* classified as an MCP error
C30_Witness ==
    /\ peResult.Type = "mcp"
    /\ \E i, j \in 1..Len(peStderr) :
          i < j /\ peStderr[i] = "TIMEOUT" /\ peStderr[j] = "MCP"

\* a keyword of the set occurs in the text, whatever the case of the text
TextHas(text, keywords) ==
    \E i \in 1..Len(text), k \in keywords : k \in SubstringsOf(LowerWord(text[i]))

\* C31: an MCP error that ParseError made is retryable when its diagnostic
\* text has a connection keyword, not retryable when it has a configuration
\* keyword and no connection keyword, and retryable otherwise.
C31_McpRetryability ==
    peResult.Type = "mcp" =>
        (IsRetryable(Returned(peResult))
            <=> (TextHas(peStderr, ConnectionKeywords)
                    \/ ~TextHas(peStderr, ConfigKeywords)))

\* C32: every error ParseError makes has a kind, a message that is not empty,
\* the exit code it was given, and in its details the diagnostic text and a
\* suggestion.
C32_ErrorCarriesAll ==
    peResult # NotParsed =>
        /\ peResult.Type # "none"
        /\ peResult.Message # <<>>
        /\ peResult.Code = peExitCode
        /\ "stderr" \in peResult.Details
        /\ "suggestion" \in peResult.Details

\* C33: every error StreamPrompt sends on its error channel is a classified
\* error, a *ClaudeError with a kind.
C33_OnlyClassifiedErrors ==
    \A i \in 1..Len(ErrsSent) : ErrsSent[i].kind = "claude"

\* C35: when StreamPrompt closes its channels after the process was started,
\* the process has ended and cmd.Wait has collected its exit.
C35_ProcessReapedAtClose ==
    (errClosed >= 1 /\ procState # "unstarted")
        => (procState \in {"exited", "killed"} /\ waited)

C37_Safety ==
    /\ Len(ErrsSent) <= 1
    /\ Len(errCh) <= ErrChCap
    /\ pc \notin {"return", "closeMsg", "done"} => ErrsSent = <<>>

\* C37: no send on the error channel blocks.  At most one error is sent, into
\* a channel with room for it, so the goroutine that has a failed exit to
\* report, or has sent its error, goes on to close both channels whether or
\* not the consumer receives from the error channel.
C37_ErrSendNeverBlocks ==
    /\ []C37_Safety
    /\ pc = "wait" ~> ClosedBoth
    /\ ErrsSent # <<>> ~> ClosedBoth

\* the goroutine sent the error of a failed exit and finished, and the error
\* is still in the channel
C37_Witness ==
    /\ pc = "done"
    /\ ClosedBoth
    /\ gotErrs = <<>>
    /\ Len(errCh) = 1
    /\ errCh[1].kind = "claude"

\* the last attempt the policy permits has been made and has failed
LastAttemptFailed ==
    /\ Len(attempts) = policy.MaxRetries + 1
    /\ attempts[Len(attempts)] # NoErr

\* C36: once the last permitted attempt has failed, the executor makes no
\* wait: it is in neither select, and no wait is recorded after that attempt.
C36_NoWaitAfterLastAttempt ==
    LastAttemptFailed =>
        /\ rpc \notin {"backoff", "ratewait"}
        /\ \A i \in 1..Len(waits) : waits[i].before <= Len(attempts)

\* C34: an Execute call made while the breaker is HalfOpen and another call's
\* operation is in flight is refused, without invoking the operation.
C34_SingleProbe ==
    [][\A c \in Callers :
          (/\ state = "HalfOpen"
           /\ EntersExecute(c)
           /\ \E d \in Callers \ {c} : callPc[d] = "running")
              => (callRes'[c] = "rejected" /\ callPc'[c] = "idle")]_vars

\* C39: the bytes in a slice that Bytes() returned stay what they were when
\* it returned, whatever Write and Reset calls follow.
C39_SnapshotStable ==
    snSnap.taken => SliceNow = snSnap.was

\* the bytes of each call stand next to each other
Contiguous(b) ==
    \A i, k \in 1..Len(b) :
        (i < k /\ b[i] = b[k]) => \A j \in i..k : b[j] = b[i]

\* C38: under every interleaving of Write, Reset, Size and Bytes calls of
\* several goroutines, the content never exceeds the capacity, the bytes
\* accepted from each Write stand together in it, and, whenever no call is
\* inside the buffer and in every reading, Size is the length of the content.
C38_AtomicWrites ==
    /\ Len(shLb.buf) <= shLb.maxSize
    /\ Contiguous(shLb.buf)
    /\ shMu = 0 => shLb.written = Len(shLb.buf)
    /\ \A g \in Goroutines :
          shObs[g][1] = shObs[g][2] /\ shObs[g][1] <= shLb.maxSize

\* the content was filled by the writes of two goroutines, the second of
\* which was cut, and a goroutine has read the full buffer while another is
\* waiting to write
C38_Witness ==
    /\ shLb.truncated
    /\ Len(shLb.buf) = shLb.maxSize
    /\ \E i, j \in 1..Len(shLb.buf) : shLb.buf[i][1] # shLb.buf[j][1]
    /\ \E g \in Goroutines : shObs[g][1] = shLb.maxSize
    /\ \E g \in Goroutines : shPc[g] = "check"

\* C40: once CopyWithTimeout has returned, nothing more is read from the
\* source and nothing more is written to the destination.
C40_CopyStoppedAtReturn ==
    [][cwPc = "returned" => (cpSrc' = cpSrc /\ cpDst' = cpDst)]_vars

====
